---------------------------- MODULE Spec2Model ----------------------------
(***************************************************************************)
(* Command Relay of agentforce-voice (app.py): the in-memory per-device    *)
(* command queues, the enqueue handler and the long-poll handler.          *)
(*                                                                         *)
(* The server is started with app.run(...), Flask's threaded development   *)
(* server: every request runs in its own thread over the shared            *)
(* COMMAND_QUEUES dict.  A thread can be preempted between any two         *)
(* accesses to shared state (dict lookup, dict store, deque.append,        *)
(* deque.popleft, bool(deque), len(deque)); each such access is atomic     *)
(* under the interpreter lock.  Statements that touch only locals are      *)
(* folded into the preceding shared access.                                *)
(*                                                                         *)
(* Time is kept per waiting poll: elapsed[t] is time.time() - start of     *)
(* thread t, in ticks of 0.1 s, counted up to MaxTime.                     *)
(***************************************************************************)
EXTENDS Naturals, Integers, Sequences, FiniteSets, TLC

\* ----------------------------------------------------------------- bounds
MaxCommands    == 3     \* enqueue requests that carry a command, in Spec
MaxCommandsTwo == 2     \* the same, in SpecTwo
MaxCommandsLive == 1    \* the same, in SpecLive
MaxCommandsMax == 2     \* the same, in SpecMax
MaxCommandsRaw == 1     \* the same, in SpecRaw
MaxPolls     == 2    \* poll responses the device client receives
MaxSettings  == 1    \* set_settings commands among them
MaxClicks    == 1    \* clicks on connectBtn and disconnectBtn
MaxRooms     == 3    \* Room objects the device client creates
MaxTime        == 2     \* elapsed times are counted up to this many ticks

\* ------------------------------------------------------- program constants
SleepTicks  == 1        \* time.sleep(0.1): one tick is 0.1 s

\* ------------------------------------------------------------ input sets
Threads      == {"t1", "t2"}          \* request threads of the server
ThreadNo     == [t \in Threads |-> IF t = "t1" THEN 1 ELSE 2]
Devices      == {"A", "B", "default-phone", ""}   \* resolved device ids
OneDevice    == {"A"}                 \* the device of the requests of Spec
\* the requests of SpecTwo: t1 serves the polls of device A, t2 serves the
\* polls of device B and the enqueues for both devices
PollsOf      == [t \in Threads |-> IF t = "t1" THEN {"A"} ELSE {"B"}]
EnqueuesOf   == [t \in Threads |-> IF t = "t1" THEN {} ELSE {"A", "B"}]
EmptyCommand == 0                     \* body without 'command', or ''
                                      \* 1, 2, ...: distinct command strings
Payloads     == {"p"}                 \* body.get('payload')
\* body 'max', 'wait', 'timeout' (in ticks) of the poll requests
PollInputs   == {[max_items |-> 1, wait |-> FALSE, timeout_s |-> 2],
                 [max_items |-> 2, wait |-> TRUE,  timeout_s |-> 2]}
\* poll requests whose body 'max' is zero or negative
NonPositiveInputs == {[max_items |-> 0,  wait |-> FALSE, timeout_s |-> 2],
                      [max_items |-> 0,  wait |-> TRUE,  timeout_s |-> 2],
                      [max_items |-> -1, wait |-> TRUE,  timeout_s |-> 2]}
NoQueue      == 0                     \* device_id not in COMMAND_QUEUES

\* ---------------------------------------------------------- JSON values
\* A parsed JSON value.  A string is the sequence of its characters; an
\* object keeps its keys in document order (dicts keep insertion order).
JNull        == [type |-> "null", str |-> <<>>, keys |-> <<>>, items |-> <<>>]
JNum         == [type |-> "num",  str |-> <<>>, keys |-> <<>>, items |-> <<>>]
JStr(s)      == [type |-> "str",  str |-> s,    keys |-> <<>>, items |-> <<>>]
JArr(xs)     == [type |-> "arr",  str |-> <<>>, keys |-> <<>>, items |-> xs]
JObj(ks, xs) == [type |-> "obj",  str |-> <<>>, keys |-> ks,   items |-> xs]
\* truth value of a value that is None or a string (`if t:`, `if not tok`)
JFalsy(v) == v.type = "null" \/ (v.type = "str" /\ v.str = <<>>)

LF == "LF"                             \* the newline character

Message(c, p) == [type |-> c, payload |-> p]

NoReq  == [kind |-> "none", deviceId |-> JNull, device_id |-> "none",
           command |-> EmptyCommand,
           payload |-> "null", max_items |-> 0, wait |-> FALSE, timeout_s |-> 0]
NoResp == [status |-> 0, commands |-> <<>>, queueDepth |-> 0]
NoHist == [peers |-> {}, q0 |-> <<>>, stayedEmpty |-> FALSE,
           arrived |-> 0, waited |-> FALSE, duringWait |-> FALSE]

VARIABLES
    COMMAND_QUEUES,   \* device id -> index of its deque in deques, or NoQueue
    deques,           \* every deque object created so far, by identity
    pc,               \* per thread: position in its handler
    req,              \* per thread: the parsed request body
    q,                \* per thread: local q (index into deques)
    cmds,             \* per thread: local cmds
    elapsed,          \* per thread: time.time() - start, in ticks, up to MaxTime
    sleepLeft,        \* per thread: ticks before time.sleep(0.1) may return
    resp,             \* per thread: the response returned
    nSent,            \* number of enqueue requests with a command so far
    enqLog,           \* history: per device, the messages appended, in order
    delivered,        \* history: per device, poll responses concatenated
    overlapped,       \* history: per device, two requests ran concurrently
    hist,             \* history: per thread, facts about the running request
    \* Credential Broker (start_session): one request at a time
    env,              \* module globals BOOTSTRAP_URL_TEMPLATE, AGENT_ID, DOMAIN_URL,
                      \* SALESFORCE_ENDPOINT, read from the environment at start
    server,           \* which handler serves the request: "app" (app.py,
                      \* start_session) or "cli" (create_agent_session.py, join_room)
    bpc,              \* position in start_session
    body,             \* request.get_json() or {}
    config,           \* locals bootstrap_url, agent_id, domain_url, salesforce_endpoint
    calls,            \* the outbound HTTP calls issued by this request, in order
    sent,             \* history: the URL and Authorization header of each call
    replies,          \* history: what each outbound call came back with
    access_token,     \* local access_token
    session_id,       \* local session_id
    join_data,        \* local join_data
    tok,              \* extract_livekit_creds: local tok
    url,              \* extract_livekit_creds: local url
    pathHit,          \* history: tok and url as the path loops left them
    bresp,            \* the response of start_session
    \* Device client (the page script), one browser tab
    room,             \* global room: 0 for null, or the index of a Room in lk
    isConnecting,     \* global isConnecting
    isMuted,          \* global isMuted
    localMicTrack,    \* global localMicTrack: is it a track
    settingsOk,       \* whether validateSettings() finds the four fields filled
    connectBtn,       \* whether connectBtn is shown (disconnectBtn is shown if not)
    lk,               \* every Room object created so far, by identity
    task,             \* per task: what is left to run and what it awaits
    batch,            \* pollControl: the commands of data.commands not yet applied
    polls,            \* history: poll requests issued, answered, failed, and
                      \* responses abandoned because a handler threw
    last,             \* history: facts about the last command applied
    used              \* number of clicks and of set_settings commands so far

relayVars == <<COMMAND_QUEUES, deques, pc, req, q, cmds, elapsed, sleepLeft, resp,
               nSent, enqLog, delivered, overlapped, hist>>

brokerVars == <<env, server, bpc, body, config, calls, sent, replies, access_token,
                session_id, join_data, tok, url, pathHit, bresp>>

clientVars == <<room, isConnecting, isMuted, localMicTrack, settingsOk, connectBtn,
                lk, task, batch, polls, last, used>>

vars == <<COMMAND_QUEUES, deques, pc, req, q, cmds, elapsed, sleepLeft, resp,
          nSent, enqLog, delivered, overlapped, hist, brokerVars, clientVars>>

Min(a, b) == IF a < b THEN a ELSE b
Range(s) == {s[i] : i \in 1..Len(s)}
IsPrefix(s, t) == Len(s) <= Len(t) /\ SubSeq(t, 1, Len(s)) = s

\* --------------------------------------------------- pieces of the handlers
\* app.run(host, port, debug=False): the threaded server handles requests
\* concurrently, one thread each.
Threaded_Off == FALSE
Threaded == TRUE

\* the characters of each device id
Chars == [d \in Devices |->
            CASE d = "A" -> <<"A">>
              [] d = "B" -> <<"B">>
              [] d = "default-phone" ->
                    <<"d", "e", "f", "a", "u", "l", "t", "-", "p", "h", "o", "n", "e">>
              [] d = "" -> <<>>]
\* the device id spelled by the characters s
Text(s) == CHOOSE d \in Devices : Chars[d] = s
\* the body value that spells device id d
RawOf(d) == JStr(Chars[d])
\* body 'deviceId' of the requests of SpecRaw: absent or null, '', 'A',
\* ' A\n', ' '
RawDeviceIds == {JNull, JStr(<<>>), JStr(<<"A">>), JStr(<<" ", "A", LF>>),
                 JStr(<<" ">>)}

\* str.strip(): leading and trailing whitespace removed
Whitespace == {" ", LF}
RECURSIVE LStrip(_)
LStrip(s) == IF s # <<>> /\ Head(s) \in Whitespace THEN LStrip(Tail(s)) ELSE s
RECURSIVE RStrip(_)
RStrip(s) == IF s # <<>> /\ s[Len(s)] \in Whitespace
             THEN RStrip(SubSeq(s, 1, Len(s) - 1)) ELSE s
Strip(s) == RStrip(LStrip(s))
\* `a or b` for a a body value
JOr(a, b) == IF JFalsy(a) THEN b ELSE a

\* enqueue_command, line 1526: (body.get('deviceId') or 'default-phone').strip()
EnqueueDevice(v) == Text(Strip(JOr(v, RawOf("default-phone")).str))
\* poll_commands, line 1539: the same expression
PollDevice_KeepsEmpty(v) == IF JFalsy(v) THEN "" ELSE Text(Strip(v.str))
PollDevice(v) == Text(Strip(JOr(v, RawOf("default-phone")).str))

\* `device_id not in COMMAND_QUEUES`
QueueAbsent(registry, d) == registry[d] = NoQueue

\* `COMMAND_QUEUES[device_id]`
Lookup_Shared(registry, d) ==
    CHOOSE i \in {registry[x] : x \in DOMAIN registry} :
        \A x \in DOMAIN registry : registry[x] <= i
Lookup(registry, d) == registry[d]

\* `if not command`
MissingCommand_Never(c) == FALSE
MissingCommand(c) == c = EmptyCommand

\* q.append(m)
DequeAppend_Replace(dq, m) == <<m>>
DequeAppend_Front(dq, m) == <<m>> \o dq
DequeAppend(dq, m) == Append(dq, m)

\* q.popleft(): the element returned and the deque left
PopLeft_Two(dq) == [item |-> Head(dq), rest |-> IF Len(dq) >= 2 THEN Tail(Tail(dq)) ELSE Tail(dq)]
PopLeft_Right(dq) == [item |-> dq[Len(dq)], rest |-> SubSeq(dq, 1, Len(dq) - 1)]
PopLeft(dq) == [item |-> Head(dq), rest |-> Tail(dq)]

\* `q and len(cmds) < max_items`
DrainTest_AtLeastOne(dq, cs, max) == dq # <<>> /\ (cs = <<>> \/ Len(cs) < max)
DrainTest_OneMore(dq, cs, max) == dq # <<>> /\ Len(cs) <= max
DrainTest(dq, cs, max) == dq # <<>> /\ Len(cs) < max

\* `cmds or not wait`
ReturnNow_IgnoreWait(cs, w) == cs # <<>>
ReturnNow(cs, w) == cs # <<>> \/ ~w

\* `time.time() - start < timeout_s`
WithinTimeout_Early(t_elapsed, timeout) == t_elapsed + 1 < timeout
WithinTimeout_Always(t_elapsed, timeout) == TRUE
WithinTimeout(t_elapsed, timeout) == t_elapsed < timeout

\* len(q) in the enqueue response
QueueDepth(dq) == Len(dq)

\* the queue a device id resolves to at this moment (empty when none yet)
Contents(d) == IF COMMAND_QUEUES[d] = NoQueue THEN <<>>
               ELSE deques[COMMAND_QUEUES[d]]

InFlight(t) == pc[t] \notin {"idle", "done"}
\* A request is served by the first free thread; without threading it waits
\* until no other request is being served.
FirstFree(t) ==
    pc[t] = "idle" /\ \A u \in Threads : pc[u] = "idle" => ThreadNo[t] <= ThreadNo[u]
CanStart(t) == pc[t] = "idle" /\ (Threaded \/ \A u \in Threads : ~InFlight(u))

\* ============================================= Credential Broker: values
\* Python None: a key that is absent from a dict read with .get()
None == "None"
\* `not v` for v a string or None
Falsy(v) == v = None \/ v = ""
\* `a or b`
Or(a, b) == IF Falsy(a) THEN b ELSE a

\* bootstrap URL templates: one that str.format(AGENT_ID=...) fills, and one
\* with another placeholder, for which str.format raises KeyError
GoodTemplate == "https://site/bootstrap?agentid={AGENT_ID}"
BadTemplate  == "https://site/{ORG}/bootstrap"
FormatRaises(template) == template = BadTemplate

\* request bodies of /api/start-session: each key absent or given
Bodies == [bootstrapUrl       : {None, GoodTemplate, BadTemplate},
           agentId            : {None, "agent1"},
           domainUrl          : {None, "https://dom1"},
           salesforceEndpoint : {None, "https://api1"}]
NoBody == [bootstrapUrl |-> None, agentId |-> None, domainUrl |-> None,
           salesforceEndpoint |-> None]
\* os.getenv(name, default): the variable's value, "" when it is set empty
Envs == [BOOTSTRAP_URL_TEMPLATE : {"", GoodTemplate},
         AGENT_ID               : {"", "agent0"},
         DOMAIN_URL             : {"https://dom0"},
         SALESFORCE_ENDPOINT    : {"", "https://api0"}]
DefaultEnv == [BOOTSTRAP_URL_TEMPLATE |-> GoodTemplate, AGENT_ID |-> "agent0",
               DOMAIN_URL |-> "https://dom0", SALESFORCE_ENDPOINT |-> "https://api0"]
NoConfig == [bootstrap_url |-> None, agent_id |-> None, domain_url |-> None,
             salesforce_endpoint |-> None]

\* ------------------------------------------------------- character classes
Upper == {"A","B","C","D","E","F","G","H","I","J","K","L","M",
          "N","O","P","Q","R","S","T","U","V","W","X","Y","Z"}
Lower == {"a","b","c","d","e","f","g","h","i","j","k","l","m",
          "n","o","p","q","r","s","t","u","v","w","x","y","z"}
Digit == {"0","1","2","3","4","5","6","7","8","9"}
\* the character class [A-Za-z0-9-_]
JwtChars == Upper \cup Lower \cup Digit \cup {"-", "_"}

\* s.count(ch)
Count(s, ch) == Cardinality({i \in 1..Len(s) : s[i] = ch})
\* s.startswith(pre)
StartsWith(s, pre) == Len(s) >= Len(pre) /\ SubSeq(s, 1, Len(pre)) = pre
Wss == <<"w", "s", "s", ":", "/", "/">>

\* `t.count(".") == 2`
TwoPeriods_AtLeast(s) == Count(s, ".") >= 2
TwoPeriods(s) == Count(s, ".") = 2

\* [A-Za-z0-9-_]+\.[A-Za-z0-9-_]+\.[A-Za-z0-9-_]+ over the whole of s
ThreeSegments(s) ==
    /\ Count(s, ".") = 2
    /\ \A i \in 1..Len(s) : s[i] = "." \/ s[i] \in JwtChars
    /\ Len(s) >= 1 /\ s[1] # "." /\ s[Len(s)] # "."
    /\ \A i \in 1..(Len(s) - 1) : ~(s[i] = "." /\ s[i + 1] = ".")
\* jwt_re.match(s) for jwt_re = ^...$ : `$` matches at the end of the string
\* and also just before a newline that ends the string
jwt_re_match(s) ==
    \/ ThreeSegments(s)
    \/ Len(s) >= 1 /\ s[Len(s)] = LF /\ ThreeSegments(SubSeq(s, 1, Len(s) - 1))

\* path.split("."): a path is written with its "." separators
Split(path) == SelectSeq(path, LAMBDA x : x # ".")

\* `isinstance(cur, dict) and p in cur`, and cur[p]
HasKey(cur, p) == cur.type = "obj" /\ \E i \in 1..Len(cur.keys) : cur.keys[i] = p
Item(cur, p) == cur.items[CHOOSE i \in 1..Len(cur.keys) : cur.keys[i] = p]

RECURSIVE WalkPath(_, _)
WalkPath(cur, ps) ==
    IF ps = <<>> THEN cur
    ELSE IF HasKey(cur, Head(ps)) THEN WalkPath(Item(cur, Head(ps)), Tail(ps))
    ELSE JNull
_get_by_path(obj, path) == WalkPath(obj, Split(path))

\* _find_first_jwt: dict values and list elements in order, the first truthy
\* result of the recursive call; a string that matches jwt_re is returned;
\* everything else, and a container without a hit, gives None.
RECURSIVE _find_first_jwt(_), FirstJwtIn(_, _)
FirstJwtIn(items, i) ==
    IF i > Len(items) THEN JNull
    ELSE LET t == _find_first_jwt(items[i])
         IN IF ~JFalsy(t) THEN t ELSE FirstJwtIn(items, i + 1)
_find_first_jwt(obj) ==
    IF obj.type \in {"obj", "arr"} THEN FirstJwtIn(obj.items, 1)
    ELSE IF obj.type = "str" /\ jwt_re_match(obj.str) THEN obj
    ELSE JNull

\* _find_first_wss: the same walk, for a string that starts with "wss://"
RECURSIVE _find_first_wss(_), FirstWssIn(_, _)
FirstWssIn(items, i) ==
    IF i > Len(items) THEN JNull
    ELSE LET t == _find_first_wss(items[i])
         IN IF ~JFalsy(t) THEN t ELSE FirstWssIn(items, i + 1)
_find_first_wss(obj) ==
    IF obj.type \in {"obj", "arr"} THEN FirstWssIn(obj.items, 1)
    ELSE IF obj.type = "str" /\ StartsWith(obj.str, Wss) THEN obj
    ELSE JNull

token_paths == << <<"room", ".", "token">>, <<"room", ".", "accessToken">>,
                 <<"room", ".", "jwt">>, <<"roomToken">>, <<"roomJWT">>,
                 <<"token">>, <<"accessToken">>, <<"jwt">> >>
url_paths   == << <<"endpoint">>, <<"room", ".", "url">>, <<"room", ".", "serverUrl">>,
                 <<"room", ".", "wss">>, <<"wss">>, <<"wssUrl">>, <<"wsUrl">>, <<"url">> >>

\* `for p in token_paths: t = _get_by_path(join_data, p); if isinstance(t, str)
\* and t.count(".") == 2: tok = t; break`, tok starting as None
RECURSIVE PathToken(_, _)
PathToken(obj, i) ==
    IF i > Len(token_paths) THEN JNull
    ELSE LET t == _get_by_path(obj, token_paths[i])
         IN IF t.type = "str" /\ TwoPeriods(t.str) THEN t ELSE PathToken(obj, i + 1)

\* the same loop over url_paths with u.startswith("wss://")
RECURSIVE PathUrl(_, _)
PathUrl(obj, i) ==
    IF i > Len(url_paths) THEN JNull
    ELSE LET u == _get_by_path(obj, url_paths[i])
         IN IF u.type = "str" /\ StartsWith(u.str, Wss) THEN u ELSE PathUrl(obj, i + 1)

\* `if not tok:` / `if not url:` before the recursive search
NeedsFallback_Always(v) == TRUE
NeedsFallback(v) == JFalsy(v)

\* `if not livekit_token or not livekit_url`
CredsMissing_Both(t, u) == JFalsy(t) /\ JFalsy(u)
CredsMissing(t, u) == JFalsy(t) \/ JFalsy(u)

\* ------------------------------------------------ upstream replies (inputs)
\* strings that occur in join payloads
S_abc     == <<"a", ".", "b", ".", "c">>
S_def     == <<"d", ".", "e", ".", "f">>
S_eyJ     == <<"e", "y", "J", ".", "e", "y", "J", ".", "e", "y", "J">>
S_a__c    == <<"a", ".", ".", "c">>
S_abcd    == <<"a", ".", "b", ".", "c", ".", "d">>
S_ab      == <<"a", ".", "b">>
S_abcLF   == <<"a", ".", "b", ".", "c", LF>>
S_a_bc    == <<"a", " ", ".", "b", ".", "c">>
S_plain   == <<"a", "b", "c">>
S_wss_x   == Wss \o <<"x">>
S_wss_y   == Wss \o <<"y">>
S_wss_fb  == Wss \o <<"f", "a", "l", "l", "b", "a", "c", "k">>
S_https_x == <<"h", "t", "t", "p", "s", ":", "/", "/", "x">>

\* the JSON bodies the join endpoint answers with
JoinPayloads == {
    \* both on a priority path
    JObj(<<"room">>, <<JObj(<<"token", "url">>, <<JStr(S_abc), JStr(S_wss_x)>>)>>),
    \* no path matches; a token three levels deep and a sibling URL
    JObj(<<"a">>, <<JObj(<<"b">>, <<JObj(<<"c", "d">>, <<JStr(S_eyJ), JStr(S_wss_fb)>>)>>)>>),
    \* nothing that looks like a token or a wss URL
    JObj(<<"room", "n", "url">>,
         <<JObj(<<"token">>, <<JStr(S_plain)>>), JNum, JStr(S_https_x)>>),
    JNull,
    \* only one of the two
    JObj(<<"token">>, <<JStr(S_abc)>>),
    JObj(<<"url">>, <<JStr(S_wss_x)>>),
    \* earlier paths absent, not a string or failing the test
    JObj(<<"room", "token", "endpoint", "wss", "url">>,
         <<JObj(<<"token", "accessToken", "jwt">>, <<JNum, JStr(S_abcd), JStr(S_abc)>>),
           JStr(S_def), JStr(S_https_x), JStr(S_wss_x), JStr(S_wss_y)>>),
    \* path hits after other matching strings in document order
    JObj(<<"auth", "first", "token", "url">>,
         <<JStr(S_def), JStr(S_wss_y), JStr(S_abc), JStr(S_wss_x)>>),
    \* a path hit for one field only
    JObj(<<"auth", "token", "deep">>,
         <<JStr(S_def), JStr(S_abc), JArr(<<JNum, JObj(<<"k">>, <<JStr(S_wss_fb)>>)>>)>>),
    JObj(<<"other", "url">>, <<JArr(<<JStr(S_def)>>), JStr(S_wss_x)>>),
    \* two periods, but not three segments
    JObj(<<"token", "url">>, <<JStr(S_a__c), JStr(S_wss_x)>>),
    \* two periods around text that is not base64url
    JObj(<<"jwt", "wss">>, <<JStr(S_a_bc), JStr(S_wss_y)>>),
    \* a token-shaped string followed by a newline
    JObj(<<"x", "y", "u">>, <<JStr(S_abcLF), JStr(S_def), JStr(S_wss_x)>>),
    \* several candidates at different depths
    JObj(<<"a", "b", "w", "v">>,
         <<JArr(<<JObj(<<"k">>, <<JStr(S_ab)>>), JStr(S_def)>>), JStr(S_abc),
           JObj(<<"q">>, <<JStr(S_wss_y)>>), JStr(S_wss_x)>>),
    \* an array at the top; values on the paths that are not strings
    JArr(<<JStr(S_abc), JStr(S_wss_x)>>),
    JObj(<<"token", "url">>,
         <<JObj(<<"value">>, <<JStr(S_abc)>>), JArr(<<JStr(S_wss_x)>>)>>) }

\* What an outbound call comes back with: requests raised (connection error,
\* timeout), a response with a non-2xx status, or a 2xx response with a JSON
\* object, of which the keys the handler reads are kept.
Reply(k, at, aT, sid, data) ==
    [kind |-> k, access_token |-> at, accessToken |-> aT, sessionId |-> sid, data |-> data]
Failures == {Reply("transport_error", None, None, None, JNull),
             Reply("http_error", None, None, None, JNull)}
BootstrapReplies ==
    Failures \cup {Reply("ok", at, aT, None, JNull) :
                     at \in {None, "", "tokA"}, aT \in {None, "tokB"}}
CreateReplies ==
    Failures \cup {Reply("ok", None, None, sid, JNull) : sid \in {None, "", "sid1", "sid2"}}
JoinReplies ==
    Failures \cup {Reply("ok", None, None, None, data) : data \in JoinPayloads}

\* requests.get/post(..., timeout=30) raising, or response.raise_for_status()
\* raising for a non-2xx status: a requests.exceptions.RequestException
RaisesRequestException_OnlyTransport(reply) == reply.kind = "transport_error"
RaisesRequestException(reply) == reply.kind # "ok"

\* `not all([bootstrap_url, agent_id, salesforce_endpoint])`
ConfigIncomplete_EndpointOnly(cfg) == Falsy(cfg.salesforce_endpoint)
ConfigIncomplete(cfg) ==
    Falsy(cfg.bootstrap_url) \/ Falsy(cfg.agent_id) \/ Falsy(cfg.salesforce_endpoint)

\* `if not access_token:` / `if not session_id:`
Missing_Never(v) == FALSE
Missing(v) == Falsy(v)

\* the order of the statements of start_session: what follows each call
NextStage_SkipCreate == [bootstrap |-> "join", create |-> "join", join |-> "paths"]
NextStage == [bootstrap |-> "create", create |-> "join", join |-> "paths"]

\* what an outbound call is sent with: the URL (its parts, the values filled
\* in among them) and the Authorization header
Request(u, auth) == [url |-> u, Authorization |-> auth]
\* bootstrap_url.format(AGENT_ID=agent_id_val)
Format(template, agent_id) == <<template, agent_id>>
\* f"Bearer {access_token}"
Authorization(token) == <<"Bearer", token>>
\* f"{salesforce_endpoint_val}/einstein/ai-agent/v1.1/agents/{agent_id_val}/sessions"
CreateUrl(endpoint, agent_id) ==
    <<endpoint, "/einstein/ai-agent/v1.1/agents/", agent_id, "/sessions">>
\* f"{salesforce_endpoint_val}/einstein/ai-agent/v1.1/realtime/sessions/{session_id}/join"
JoinUrl_OfAgent(endpoint, sid) ==
    <<endpoint, "/einstein/ai-agent/v1.1/realtime/sessions/", "agent0", "/join">>
JoinUrl(endpoint, sid) ==
    <<endpoint, "/einstein/ai-agent/v1.1/realtime/sessions/", sid, "/join">>

\* the responses of start_session
NoBundle == [sessionId |-> None, livekitUrl |-> JNull, token |-> JNull]
NoBresp  == [status |-> 0, error |-> "", bundle |-> NoBundle]
ErrorResponse(status, error) == [status |-> status, error |-> error, bundle |-> NoBundle]
NoPathHit == [tok |-> JNull, url |-> JNull]

\* ------------------------------------------ the device client (page script)
\* The page runs on one event loop.  A task is one chain of async calls; a step
\* runs a task from the point where an awaited promise settles to its next
\* await of the network or of the LiveKit room.
LoopTask  == 0                        \* pollControl, started by setTimeout
UiTask    == 1                        \* a click on connectBtn or disconnectBtn
BgTask(i) == 1 + i                    \* the i-th disconnectSession().then(...)
Tasks     == 0..(1 + MaxSettings)

\* data.commands of the poll responses
Batches == {<<>>, <<"end">>, <<"new">>, <<"restart_flow">>, <<"creds">>, <<"join">>,
            <<"mute_mic">>, <<"mute_mic", "end">>, <<"creds", "creds">>,
            <<"set_settings", "end">>, <<"set_settings", "creds">>}
CountOf(b, c) == Cardinality({i \in 1..Len(b) : b[i] = c})

NoFetch == [room |-> 0, prev |-> "none"]
NoTask  == [st |-> <<>>, wait |-> "idle", r |-> 0, cmd |-> "", cmdRoom |-> 0,
            fetched |-> FALSE, busy |-> FALSE, valid |-> TRUE, atFetch |-> NoFetch]
NoLast  == [cmd |-> "", fetched |-> FALSE, busy |-> FALSE, valid |-> TRUE,
            room |-> 0, isMuted |-> FALSE, atFetch |-> NoFetch]

\* the client state as one record, and back
Globals ==
    [room |-> room, isConnecting |-> isConnecting, isMuted |-> isMuted,
     localMicTrack |-> localMicTrack, settingsOk |-> settingsOk,
     connectBtn |-> connectBtn, lk |-> lk, task |-> task, batch |-> batch,
     polls |-> polls, last |-> last, used |-> used]
Commit(c0) ==
    \E c \in {c0} :
    /\ room' = c.room
    /\ isConnecting' = c.isConnecting
    /\ isMuted' = c.isMuted
    /\ localMicTrack' = c.localMicTrack
    /\ settingsOk' = c.settingsOk
    /\ connectBtn' = c.connectBtn
    /\ lk' = c.lk
    /\ task' = c.task
    /\ batch' = c.batch
    /\ polls' = c.polls
    /\ last' = c.last
    /\ used' = c.used
    /\ UNCHANGED <<relayVars, brokerVars>>

\* the page after load: no room, the form filled with the defaults, the
\* poll loop scheduled
ClientIdle ==
    /\ room = 0
    /\ isConnecting = FALSE
    /\ isMuted = FALSE
    /\ localMicTrack = FALSE
    /\ settingsOk = TRUE
    /\ connectBtn = TRUE
    /\ lk = <<>>
    /\ task = [k \in Tasks |-> IF k = LoopTask
                               THEN [NoTask EXCEPT !.st = <<"pollControl">>, !.wait = "ready"]
                               ELSE NoTask]
    /\ batch = <<>>
    /\ polls = [issued |-> 0, answered |-> 0, failed |-> 0, thrown |-> 0]
    /\ last = NoLast
    /\ used = [clicks |-> 0, settings |-> 0]

\* a room of the LiveKit library
Alive(state) == state \in {"connecting", "connected"}
Gone(state)  == state \in {"disconnected", "failed"}
\* room.disconnect() is called on room r
Close(rooms, r) ==
    IF Alive(rooms[r].state) THEN [rooms EXCEPT ![r].state = "closing"] ELSE rooms
\* updateButtons(connecting): is connectBtn shown
UpdateButtons(c, connecting) == ~(connecting \/ c.room # 0)

\* what each command of a poll response calls, in order
Handler(cmd) ==
    CASE cmd = "end"          -> <<"disconnectSession">>
      [] cmd = "new"          -> <<"disconnectSession", "startVoiceSession">>
      [] cmd = "creds"        -> <<"startVoiceSession">>
      [] cmd = "join"         -> <<"startVoiceSession">>
      [] cmd = "restart_flow" -> <<"disconnectSession", "startVoiceSession">>
      [] cmd = "mute_mic"     -> <<"toggleMicrophone">>
      [] cmd = "set_settings" -> <<"applyRemoteSettings">>
      [] OTHER                -> <<>>
\* what pollControl does after the try/catch
AfterBatch_Stops == <<>>
AfterBatch == <<"pollControl">>
\* what applyRemoteSettings starts and does not await
Reconnect == <<"disconnectSession", "then", "startVoiceSession">>

\* the end of disconnectSession
DisconnectTail_KeepsMute(c) ==
    [c EXCEPT !.localMicTrack = FALSE, !.connectBtn = UpdateButtons(c, FALSE)]
DisconnectTail(c) ==
    [c EXCEPT !.localMicTrack = FALSE, !.isMuted = FALSE,
              !.connectBtn = UpdateButtons(c, FALSE)]

\* the state of the room that was connected when the command began
StateOf(rooms, r) == IF r = 0 THEN "none" ELSE rooms[r].state

\* Run task k from the top of its stack until it awaits the network or the
\* room, or ends.
RECURSIVE Exec(_, _)
RunFrom(c, k) ==
    LET t    == c.task[k]
        rest == Tail(t.st)
        Go(c2, st2) == Exec([c2 EXCEPT !.task[k].st = st2], k)
        Block(c2, st2, w, r) ==
            [c2 EXCEPT !.task[k].st = st2, !.task[k].wait = w, !.task[k].r = r]
    IN
    IF t.st = <<>> THEN [c EXCEPT !.task[k].wait = "idle"]
    ELSE CASE Head(t.st) = "pollControl" ->
                Block([c EXCEPT !.polls.issued = @ + 1], <<"for">>, "poll", 0)
           [] Head(t.st) = "for" ->
                IF c.batch = <<>> THEN Go(c, AfterBatch)
                ELSE Go([c EXCEPT !.batch = Tail(@),
                                  !.task[k].cmd = Head(c.batch),
                                  !.task[k].cmdRoom = c.room,
                                  !.task[k].fetched = FALSE,
                                  !.task[k].busy = FALSE,
                                  !.task[k].valid = TRUE,
                                  !.task[k].atFetch = NoFetch],
                        Handler(Head(c.batch)) \o <<"handled", "for">>)
           [] Head(t.st) = "handled" ->
                Go([c EXCEPT !.last = [cmd |-> t.cmd, fetched |-> t.fetched,
                                       busy |-> t.busy, valid |-> t.valid,
                                       room |-> c.room, isMuted |-> c.isMuted,
                                       atFetch |-> t.atFetch]], rest)
           [] Head(t.st) = "disconnectSession" ->
                IF c.room # 0
                THEN Block([c EXCEPT !.lk = Close(@, c.room)],
                           <<"disconnected">> \o rest, "disconnect", c.room)
                ELSE Go(DisconnectTail(c), rest)
           [] Head(t.st) = "disconnected" ->
                Go(DisconnectTail([c EXCEPT !.room = 0]), rest)
           [] Head(t.st) = "startVoiceSession" ->
                IF c.isConnecting THEN Go([c EXCEPT !.task[k].busy = TRUE], rest)
                ELSE IF c.room # 0
                     THEN Go(c, <<"disconnectSession", "validateSettings">> \o rest)
                     ELSE Go(c, <<"validateSettings">> \o rest)
           [] Head(t.st) = "validateSettings" ->
                IF ~c.settingsOk THEN Go([c EXCEPT !.task[k].valid = FALSE], rest)
                ELSE Block([c EXCEPT !.isConnecting = TRUE,
                                     !.connectBtn = UpdateButtons(c, TRUE),
                                     !.task[k].fetched = TRUE,
                                     !.task[k].atFetch =
                                         [room |-> c.room,
                                          prev |-> StateOf(c.lk, t.cmdRoom)]],
                           <<"connectToLiveKit">> \o rest, "fetch", 0)
           [] Head(t.st) = "toggleMicrophone" ->
                IF ~c.isMuted /\ c.localMicTrack /\ c.room # 0
                THEN Block(c, <<"muted">> \o rest, "mute", 0)
                ELSE Go(c, rest)
           [] Head(t.st) = "muted" ->
                Go([c EXCEPT !.isMuted = TRUE], rest)
           [] Head(t.st) = "applyRemoteSettings" ->
                LET b  == BgTask(c.used.settings + 1)
                    c1 == [c EXCEPT !.settingsOk = TRUE,
                                    !.used.settings = @ + 1,
                                    !.task[b] = [NoTask EXCEPT !.st = Reconnect]]
                IN  Go(Exec(c1, b), rest)
           [] Head(t.st) = "then" ->
                Block(c, rest, "then", 0)
           [] OTHER -> Go(c, rest)

Exec(c0, k) == CHOOSE x \in {RunFrom(c, k) : c \in {c0}} : TRUE

\* the catch of startVoiceSession
CatchStart(c) ==
    [c EXCEPT !.connectBtn = UpdateButtons(c, FALSE), !.isConnecting = FALSE]

\* a .then callback is queued: it runs before the event loop takes the next
\* event
EventLoopFree == \A k \in Tasks : task[k].wait # "then"
Then(k) ==
    /\ task[k].wait = "then"
    /\ Commit(Exec(Globals, k))

\* setTimeout(pollControl, 100) fires
Ready(k) ==
    /\ EventLoopFree
    /\ task[k].wait = "ready"
    /\ Commit(Exec(Globals, k))

\* the poll request comes back: not ok, or with data.commands = b
PollReturns ==
    /\ EventLoopFree
    /\ task[LoopTask].wait = "poll"
    /\ polls.answered < MaxPolls
    /\ LET c == [Globals EXCEPT !.polls.answered = @ + 1] IN
       \/ Commit(Exec([c EXCEPT !.task[LoopTask].st = AfterBatch,
                                !.polls.failed = @ + 1], LoopTask))
       \/ \E b \in Batches :
             /\ used.settings + CountOf(b, "set_settings") <= MaxSettings
             /\ Commit(Exec([c EXCEPT !.batch = b], LoopTask))

\* room.disconnect() has resolved
DisconnectReturns(k) ==
    /\ EventLoopFree
    /\ task[k].wait = "disconnect"
    /\ Gone(lk[task[k].r].state)
    /\ Commit(Exec(Globals, k))

\* /api/start-session comes back: ok with credentials, or not
FetchReturns(k) ==
    /\ EventLoopFree
    /\ task[k].wait = "fetch"
    /\ \/ /\ Len(lk) < MaxRooms
          /\ Commit([Globals EXCEPT
                        !.room = Len(lk) + 1,
                        !.lk = Append(@, [state |-> "connecting", mic |-> "none"]),
                        !.task[k].st = Tail(@),
                        !.task[k].wait = "connect",
                        !.task[k].r = Len(lk) + 1])
       \/ Commit(Exec([CatchStart(Globals) EXCEPT !.task[k].st = Tail(@)], k))

\* room.connect() resolves: the Connected handler starts and asks for the
\* microphone
RoomConnects(k) ==
    /\ EventLoopFree
    /\ task[k].wait = "connect"
    /\ lk[task[k].r].state = "connecting"
    /\ Commit(Exec([Globals EXCEPT !.lk[task[k].r] =
                                       [state |-> "connected", mic |-> "pending"]], k))

\* room.connect() rejects
RoomConnectFails(k) ==
    /\ EventLoopFree
    /\ task[k].wait = "connect"
    /\ lk[task[k].r].state \in {"connecting", "closing", "disconnected"}
    /\ Commit(Exec(CatchStart([Globals EXCEPT !.lk[task[k].r].state =
                                  IF @ = "connecting" THEN "failed" ELSE @]), k))

\* the Connected handler of room r goes on after createLocalAudioTrack
MicrophoneReturns(r) ==
    /\ EventLoopFree
    /\ r \in 1..Len(lk)
    /\ lk[r].mic = "pending"
    /\ \E granted \in BOOLEAN :
          Commit([Globals EXCEPT !.lk[r].mic = "done",
                                 !.localMicTrack = IF granted THEN TRUE ELSE @,
                                 !.isConnecting = FALSE])

\* room r emits Disconnected
OnDisconnected(r) ==
    Commit([Globals EXCEPT !.lk[r].state = "disconnected",
                              !.connectBtn = UpdateButtons(Globals, FALSE),
                              !.room = 0,
                              !.localMicTrack = FALSE,
                              !.isConnecting = FALSE])
\* room.disconnect() has closed room r
RoomDisconnected(r) ==
    /\ EventLoopFree
    /\ r \in 1..Len(lk)
    /\ lk[r].state = "closing"
    /\ OnDisconnected(r)
\* the far side ends room r
RoomDropped(r) ==
    /\ EventLoopFree
    /\ r \in 1..Len(lk)
    /\ lk[r].state = "connected"
    /\ OnDisconnected(r)

\* localMicTrack.mute() resolves, or rejects into the catch of pollControl
MuteReturns(k) ==
    /\ EventLoopFree
    /\ task[k].wait = "mute"
    /\ \/ Commit(Exec(Globals, k))
       \/ Commit(Exec([Globals EXCEPT !.task[k].st = AfterBatch, !.batch = <<>>,
                                      !.polls.thrown = @ + 1], k))

\* the user clicks connectBtn
ClickConnect ==
    /\ EventLoopFree
    /\ connectBtn
    /\ task[UiTask].wait = "idle"
    /\ used.clicks < MaxClicks
    /\ Commit(Exec([Globals EXCEPT !.used.clicks = @ + 1,
                                   !.task[UiTask] =
                                       [NoTask EXCEPT !.st = <<"startVoiceSession">>]],
                   UiTask))

\* the user clicks disconnectBtn
ClickDisconnect ==
    /\ EventLoopFree
    /\ ~connectBtn
    /\ task[UiTask].wait = "idle"
    /\ used.clicks < MaxClicks
    /\ Commit(Exec([Globals EXCEPT !.used.clicks = @ + 1,
                                   !.task[UiTask] =
                                       [NoTask EXCEPT !.st = <<"disconnectSession">>]],
                   UiTask))

\* the user empties a field of the form
ClearField ==
    /\ EventLoopFree
    /\ settingsOk
    /\ Commit([Globals EXCEPT !.settingsOk = FALSE])


\* ------------------------------------------------------------------- Init
\* the relay before any request
RelayIdle ==
    /\ COMMAND_QUEUES = [d \in Devices |-> NoQueue]
    /\ deques = <<>>
    /\ pc = [t \in Threads |-> "idle"]
    /\ req = [t \in Threads |-> NoReq]
    /\ q = [t \in Threads |-> NoQueue]
    /\ cmds = [t \in Threads |-> <<>>]
    /\ elapsed = [t \in Threads |-> 0]
    /\ sleepLeft = [t \in Threads |-> 0]
    /\ resp = [t \in Threads |-> NoResp]
    /\ nSent = 0
    /\ enqLog = [d \in Devices |-> <<>>]
    /\ delivered = [d \in Devices |-> <<>>]
    /\ overlapped = [d \in Devices |-> FALSE]
    /\ hist = [t \in Threads |-> NoHist]

\* the broker before any request
BrokerIdle ==
    /\ server = "none"
    /\ bpc = "idle"
    /\ body = NoBody
    /\ config = NoConfig
    /\ calls = <<>>
    /\ sent = <<>>
    /\ replies = <<>>
    /\ access_token = None
    /\ session_id = None
    /\ join_data = JNull
    /\ tok = JNull
    /\ url = JNull
    /\ pathHit = NoPathHit
    /\ bresp = NoBresp

Init == RelayIdle /\ env = DefaultEnv /\ BrokerIdle /\ ClientIdle

\* History bookkeeping when thread t starts a request of kind k on device d.
Peers(t, d) == {u \in Threads \ {t} : InFlight(u) /\ req[u].device_id = d}
HistAtStart(t, d, k) ==
    /\ hist' = [u \in Threads |->
                  IF u = t THEN [NoHist EXCEPT !.peers = {req[v].kind : v \in Peers(t, d)},
                                               !.q0 = Contents(d),
                                               !.stayedEmpty = (Contents(d) = <<>>),
                                               !.duringWait =
                                                  \E v \in Threads \ {t} :
                                                     InFlight(v) /\ hist[v].waited]
                  ELSE IF u \in Peers(t, d)
                       THEN [hist[u] EXCEPT !.peers = @ \cup {k}]
                       ELSE hist[u]]
    /\ overlapped' = [overlapped EXCEPT ![d] = @ \/ Peers(t, d) # {}]

\* ---------------------------------------------------------------- enqueue
\* enqueue_command, lines 1525-1530: parse the body, resolve the device,
\* reject a missing command.
StartEnqueueWith(t, raw, c, p) ==
    LET d == EnqueueDevice(raw) IN
    /\ CanStart(t)
    /\ req' = [req EXCEPT ![t] = [NoReq EXCEPT !.kind = "enqueue", !.deviceId = raw,
                                               !.device_id = d,
                                               !.command = c, !.payload = p]]
    /\ IF MissingCommand(c)
         THEN /\ pc' = [pc EXCEPT ![t] = "done"]
              /\ resp' = [resp EXCEPT ![t] = [NoResp EXCEPT !.status = 400]]
              /\ UNCHANGED <<nSent, hist, overlapped>>
         ELSE /\ pc' = [pc EXCEPT ![t] = "qf_check"]
              /\ nSent' = nSent + 1
              /\ HistAtStart(t, d, "enqueue")
              /\ UNCHANGED resp
    /\ UNCHANGED <<brokerVars, clientVars>>
    /\ UNCHANGED <<COMMAND_QUEUES, deques, q, cmds, elapsed, sleepLeft, enqLog, delivered>>
\* the request whose body names device d as it is
StartEnqueueOn(t, d, c, p) == StartEnqueueWith(t, RawOf(d), c, p)

\* The k-th enqueue request that carries a command carries command k.
StartEnqueue(t) ==
    /\ FirstFree(t)
    /\ \E d \in OneDevice, p \in Payloads, c \in {EmptyCommand, nSent + 1} :
         c <= MaxCommands /\ StartEnqueueOn(t, d, c, p)

\* _queue_for, line 1519: the membership test.
QfCheck(t) ==
    /\ pc[t] = "qf_check"
    /\ pc' = [pc EXCEPT ![t] = IF QueueAbsent(COMMAND_QUEUES, req[t].device_id)
                                 THEN "qf_set" ELSE "qf_get"]
    /\ UNCHANGED <<brokerVars, clientVars>>
    /\ UNCHANGED <<COMMAND_QUEUES, deques, req, q, cmds, elapsed, sleepLeft, resp, nSent,
                   enqLog, delivered, overlapped, hist>>

\* _queue_for, line 1520: COMMAND_QUEUES[device_id] = deque().
QfSet(t) ==
    /\ pc[t] = "qf_set"
    /\ deques' = Append(deques, <<>>)
    /\ COMMAND_QUEUES' = [COMMAND_QUEUES EXCEPT ![req[t].device_id] = Len(deques) + 1]
    /\ pc' = [pc EXCEPT ![t] = "qf_get"]
    /\ UNCHANGED <<brokerVars, clientVars>>
    /\ UNCHANGED <<req, q, cmds, elapsed, sleepLeft, resp, nSent, enqLog, delivered,
                   overlapped, hist>>

\* _queue_for, line 1521, and the assignment to q (lines 1531, 1543).
QfGet(t) ==
    /\ pc[t] = "qf_get"
    /\ q' = [q EXCEPT ![t] = Lookup(COMMAND_QUEUES, req[t].device_id)]
    /\ pc' = [pc EXCEPT ![t] = IF req[t].kind = "enqueue" THEN "append" ELSE "drain_test"]
    /\ UNCHANGED <<brokerVars, clientVars>>
    /\ UNCHANGED <<COMMAND_QUEUES, deques, req, cmds, elapsed, sleepLeft, resp, nSent,
                   enqLog, delivered, overlapped, hist>>

\* History: an append for device d is seen by the polls running on d; a poll
\* in its waiting loop whose timeout has not elapsed notes the first arrival.
HistAtAppend(d, c) ==
    hist' = [u \in Threads |->
               IF InFlight(u) /\ req[u].device_id = d /\ req[u].kind = "poll"
               THEN [hist[u] EXCEPT !.stayedEmpty = FALSE,
                                    !.arrived = IF @ = 0 /\ hist[u].waited
                                                   /\ elapsed[u] < req[u].timeout_s
                                                THEN c ELSE @]
               ELSE hist[u]]

\* enqueue_command, line 1533: q.append({"type": command, "payload": payload}).
EnqAppend(t) ==
    LET m == Message(req[t].command, req[t].payload) IN
    /\ pc[t] = "append"
    /\ deques' = [deques EXCEPT ![q[t]] = DequeAppend(@, m)]
    /\ enqLog' = [enqLog EXCEPT ![req[t].device_id] = Append(@, m)]
    /\ HistAtAppend(req[t].device_id, req[t].command)
    /\ pc' = [pc EXCEPT ![t] = "enq_ret"]
    /\ UNCHANGED <<brokerVars, clientVars>>
    /\ UNCHANGED <<COMMAND_QUEUES, req, q, cmds, elapsed, sleepLeft, resp, nSent,
                   delivered, overlapped>>

\* enqueue_command, line 1534: the response, with "queued" and len(q).
EnqReturn(t) ==
    /\ pc[t] = "enq_ret"
    /\ resp' = [resp EXCEPT ![t] = [status |-> 200,
                                    commands |-> <<Message(req[t].command, req[t].payload)>>,
                                    queueDepth |-> QueueDepth(deques[q[t]])]]
    /\ pc' = [pc EXCEPT ![t] = "done"]
    /\ UNCHANGED <<brokerVars, clientVars>>
    /\ UNCHANGED <<COMMAND_QUEUES, deques, req, q, cmds, elapsed, sleepLeft, nSent,
                   enqLog, delivered, overlapped, hist>>

\* ------------------------------------------------------------------- poll
\* poll_commands, lines 1538-1542: parse the body, resolve the device.
StartPollWith(t, raw, in) ==
    LET d == PollDevice(raw) IN
    /\ CanStart(t)
    /\ req' = [req EXCEPT ![t] = [NoReq EXCEPT !.kind = "poll", !.deviceId = raw,
                                               !.device_id = d,
                                               !.max_items = in.max_items,
                                               !.wait = in.wait,
                                               !.timeout_s = in.timeout_s]]
    /\ HistAtStart(t, d, "poll")
    /\ pc' = [pc EXCEPT ![t] = "qf_check"]
    /\ UNCHANGED <<brokerVars, clientVars>>
    /\ UNCHANGED <<COMMAND_QUEUES, deques, q, cmds, elapsed, sleepLeft, resp, nSent,
                   enqLog, delivered>>
\* the request whose body names device d as it is
StartPollOn(t, d, in) == StartPollWith(t, RawOf(d), in)

StartPoll(t) ==
    /\ FirstFree(t)
    /\ \E d \in OneDevice, in \in PollInputs : StartPollOn(t, d, in)

\* The poll's response {"deviceId": ..., "commands": cmds}.
PollReturn(t, cs) ==
    /\ resp' = [resp EXCEPT ![t] = [NoResp EXCEPT !.status = 200, !.commands = cs]]
    /\ delivered' = [delivered EXCEPT ![req[t].device_id] = @ \o cs]
    /\ pc' = [pc EXCEPT ![t] = "done"]

\* q.popleft() on an empty deque raises IndexError: the request ends with
\* status 500 and the commands already popped are dropped with the thread.
PollRaise(t) ==
    /\ resp' = [resp EXCEPT ![t] = [NoResp EXCEPT !.status = 500]]
    /\ pc' = [pc EXCEPT ![t] = "done"]
    /\ UNCHANGED delivered

\* poll_commands, line 1547; when the loop ends, lines 1549-1550 and, for a
\* poll that goes on to wait, line 1553 start = time.time(): from here on
\* elapsed[t] is time.time() - start.
FirstDrainTest(t) ==
    /\ pc[t] = "drain_test"
    /\ IF DrainTest(deques[q[t]], cmds[t], req[t].max_items)
         THEN /\ pc' = [pc EXCEPT ![t] = "drain_pop"]
              /\ UNCHANGED <<resp, delivered, hist>>
         ELSE IF ReturnNow(cmds[t], req[t].wait)
                THEN /\ PollReturn(t, cmds[t])
                     /\ UNCHANGED hist
                ELSE /\ pc' = [pc EXCEPT ![t] = "loop_test"]
                     /\ hist' = [hist EXCEPT ![t].waited = TRUE]
                     /\ UNCHANGED <<resp, delivered>>
    /\ UNCHANGED <<brokerVars, clientVars>>
    /\ UNCHANGED <<COMMAND_QUEUES, deques, req, q, cmds, elapsed, sleepLeft, nSent,
                   enqLog, overlapped>>

\* The popleft of lines 1548 and 1557 and the cmds.append of its result.
PopInto(t, back) ==
    IF deques[q[t]] = <<>>
      THEN /\ PollRaise(t)
           /\ UNCHANGED <<deques, cmds>>
      ELSE /\ cmds' = [cmds EXCEPT ![t] = Append(@, PopLeft(deques[q[t]]).item)]
           /\ deques' = [deques EXCEPT ![q[t]] = PopLeft(@).rest]
           /\ pc' = [pc EXCEPT ![t] = back]
           /\ UNCHANGED <<resp, delivered>>

\* poll_commands, line 1548: cmds.append(q.popleft()).
FirstDrainPop(t) ==
    /\ pc[t] = "drain_pop"
    /\ PopInto(t, "drain_test")
    /\ UNCHANGED <<brokerVars, clientVars>>
    /\ UNCHANGED <<COMMAND_QUEUES, req, q, elapsed, sleepLeft, nSent, enqLog,
                   overlapped, hist>>

\* poll_commands, line 1554, then line 1560 when the time is up.
LoopTest(t) ==
    /\ pc[t] = "loop_test"
    /\ IF WithinTimeout(elapsed[t], req[t].timeout_s)
         THEN /\ pc' = [pc EXCEPT ![t] = "loop_check"]
              /\ UNCHANGED <<resp, delivered>>
         ELSE PollReturn(t, cmds[t])
    /\ UNCHANGED <<brokerVars, clientVars>>
    /\ UNCHANGED <<COMMAND_QUEUES, deques, req, q, cmds, elapsed, sleepLeft, nSent,
                   enqLog, overlapped, hist>>

\* poll_commands, line 1555 `if q:`, then line 1559 time.sleep(0.1) when empty.
LoopCheck(t) ==
    /\ pc[t] = "loop_check"
    /\ IF deques[q[t]] # <<>>
         THEN /\ pc' = [pc EXCEPT ![t] = "ldrain_test"]
              /\ UNCHANGED sleepLeft
         ELSE /\ pc' = [pc EXCEPT ![t] = "sleeping"]
              /\ sleepLeft' = [sleepLeft EXCEPT ![t] = SleepTicks]
    /\ UNCHANGED <<brokerVars, clientVars>>
    /\ UNCHANGED <<COMMAND_QUEUES, deques, req, q, cmds, elapsed, resp, nSent,
                   enqLog, delivered, overlapped, hist>>

\* poll_commands, line 1556, then break (1558) and return (1560).
LoopDrainTest(t) ==
    /\ pc[t] = "ldrain_test"
    /\ IF DrainTest(deques[q[t]], cmds[t], req[t].max_items)
         THEN /\ pc' = [pc EXCEPT ![t] = "ldrain_pop"]
              /\ UNCHANGED <<resp, delivered>>
         ELSE PollReturn(t, cmds[t])
    /\ UNCHANGED <<brokerVars, clientVars>>
    /\ UNCHANGED <<COMMAND_QUEUES, deques, req, q, cmds, elapsed, sleepLeft, nSent,
                   enqLog, overlapped, hist>>

\* poll_commands, line 1557: cmds.append(q.popleft()).
LoopDrainPop(t) ==
    /\ pc[t] = "ldrain_pop"
    /\ PopInto(t, "ldrain_test")
    /\ UNCHANGED <<brokerVars, clientVars>>
    /\ UNCHANGED <<COMMAND_QUEUES, req, q, elapsed, sleepLeft, nSent, enqLog,
                   overlapped, hist>>

\* poll_commands, line 1559: time.sleep(0.1) returns, not before 0.1 s.
Wake(t) ==
    /\ pc[t] = "sleeping"
    /\ sleepLeft[t] = 0
    /\ pc' = [pc EXCEPT ![t] = "loop_test"]
    /\ UNCHANGED <<brokerVars, clientVars>>
    /\ UNCHANGED <<COMMAND_QUEUES, deques, req, q, cmds, elapsed, sleepLeft, resp, nSent,
                   enqLog, delivered, overlapped, hist>>

\* The response has been sent: the thread is free for the next request.
Finish(t) ==
    /\ pc[t] = "done"
    /\ pc' = [pc EXCEPT ![t] = "idle"]
    /\ req' = [req EXCEPT ![t] = NoReq]
    /\ q' = [q EXCEPT ![t] = NoQueue]
    /\ cmds' = [cmds EXCEPT ![t] = <<>>]
    /\ elapsed' = [elapsed EXCEPT ![t] = 0]
    /\ sleepLeft' = [sleepLeft EXCEPT ![t] = 0]
    /\ resp' = [resp EXCEPT ![t] = NoResp]
    /\ hist' = [hist EXCEPT ![t] = NoHist]
    /\ UNCHANGED <<brokerVars, clientVars>>
    /\ UNCHANGED <<COMMAND_QUEUES, deques, nSent, enqLog, delivered, overlapped>>

\* Time passes by one tick for every request that measures it: the polls in
\* their waiting loop (elapsed, counted up to MaxTime) and the sleeps.
WaitPcs == {"loop_test", "loop_check", "ldrain_test", "ldrain_pop", "sleeping"}
Tick ==
    /\ \E t \in Threads : pc[t] \in WaitPcs /\ (elapsed[t] < MaxTime \/ sleepLeft[t] > 0)
    /\ elapsed' = [t \in Threads |-> IF pc[t] \in WaitPcs
                                     THEN Min(elapsed[t] + 1, MaxTime) ELSE elapsed[t]]
    /\ sleepLeft' = [t \in Threads |-> IF sleepLeft[t] > 0 THEN sleepLeft[t] - 1 ELSE 0]
    /\ UNCHANGED <<brokerVars, clientVars>>
    /\ UNCHANGED <<COMMAND_QUEUES, deques, pc, req, q, cmds, resp, nSent,
                   enqLog, delivered, overlapped, hist>>

\* The steps of a request under way.
Run(t) ==
    \/ QfCheck(t)
    \/ QfSet(t)
    \/ QfGet(t)
    \/ EnqAppend(t)
    \/ EnqReturn(t)
    \/ FirstDrainTest(t)
    \/ FirstDrainPop(t)
    \/ LoopTest(t)
    \/ LoopCheck(t)
    \/ LoopDrainTest(t)
    \/ LoopDrainPop(t)
    \/ Wake(t)
    \/ Finish(t)

\* Spec: any two requests for one device, overlapping in any way.
Step(t) == StartEnqueue(t) \/ StartPoll(t) \/ Run(t)
Next == (\E t \in Threads : Step(t)) \/ Tick
Spec == Init /\ [][Next]_vars

\* SpecLive: the requests of Spec, with fewer commands, under the scheduling
\* the server gives: a request under way goes on running (each thread is
\* scheduled again and again) and time passes.
StartEnqueueLive(t) ==
    /\ FirstFree(t)
    /\ \E d \in OneDevice, p \in Payloads, c \in {EmptyCommand, nSent + 1} :
         c <= MaxCommandsLive /\ StartEnqueueOn(t, d, c, p)
NextLive == (\E t \in Threads : StartEnqueueLive(t) \/ StartPoll(t) \/ Run(t)) \/ Tick
Fairness == WF_vars(Tick) /\ \A t \in Threads : WF_vars(Run(t))
SpecLive == Init /\ [][NextLive]_vars /\ Fairness

\* SpecMax: the requests of Spec with fewer commands, and with polls whose
\* 'max' is zero or negative among the polls.
StartEnqueueMax(t) ==
    /\ FirstFree(t)
    /\ \E d \in OneDevice, p \in Payloads, c \in {EmptyCommand, nSent + 1} :
         c <= MaxCommandsMax /\ StartEnqueueOn(t, d, c, p)
StartPollMax(t) ==
    /\ FirstFree(t)
    /\ \E d \in OneDevice, in \in PollInputs \cup NonPositiveInputs : StartPollOn(t, d, in)
NextMax == (\E t \in Threads : StartEnqueueMax(t) \/ StartPollMax(t) \/ Run(t)) \/ Tick
SpecMax == Init /\ [][NextMax]_vars

\* SpecRaw: the requests name their device by any of the body values of
\* RawDeviceIds; thread t1 serves the polls and t2 the enqueues.
StartEnqueueRaw(t) ==
    /\ t = "t2"
    /\ \E raw \in RawDeviceIds, p \in Payloads, c \in {EmptyCommand, nSent + 1} :
         c <= MaxCommandsRaw /\ StartEnqueueWith(t, raw, c, p)
StartPollRaw(t) ==
    /\ t = "t1"
    /\ \E raw \in RawDeviceIds, in \in PollInputs : StartPollWith(t, raw, in)
NextRaw == (\E t \in Threads : StartEnqueueRaw(t) \/ StartPollRaw(t) \/ Run(t)) \/ Tick
SpecRaw == Init /\ [][NextRaw]_vars

\* SpecTwo: two devices; the polls of device A overlap in any way with the
\* polls of device B and with the enqueues for either device.
StartEnqueueTwo(t) ==
    \E d \in EnqueuesOf[t], p \in Payloads, c \in {EmptyCommand, nSent + 1} :
        c <= MaxCommandsTwo /\ StartEnqueueOn(t, d, c, p)
StartPollTwo(t) == \E d \in PollsOf[t], in \in PollInputs : StartPollOn(t, d, in)
StepTwo(t) == StartEnqueueTwo(t) \/ StartPollTwo(t) \/ Run(t)
NextTwo == (\E t \in Threads : StepTwo(t)) \/ Tick
SpecTwo == Init /\ [][NextTwo]_vars

\* ================================================ Credential Broker: steps
\* The except clauses of start_session: a RequestException is answered 502,
\* any other exception 500.
RequestFailed == ErrorResponse(502, "API request failed")
Unexpected    == ErrorResponse(500, "Unexpected error")

\* start_session, lines 1428-1445: read the configuration, each key from the
\* request body or else from the environment, and validate it.
StartSession(b) ==
    LET cfg == [bootstrap_url       |-> Or(b.bootstrapUrl, env.BOOTSTRAP_URL_TEMPLATE),
                agent_id            |-> Or(b.agentId, env.AGENT_ID),
                domain_url          |-> Or(b.domainUrl, env.DOMAIN_URL),
                salesforce_endpoint |-> Or(b.salesforceEndpoint, env.SALESFORCE_ENDPOINT)]
    IN /\ bpc = "idle"
       /\ server' = "app"
       /\ body' = b
       /\ config' = cfg
       /\ IF ConfigIncomplete(cfg)
            THEN /\ bresp' = ErrorResponse(400, "Missing required configuration")
                 /\ bpc' = "done"
            ELSE /\ bresp' = NoBresp
                 /\ bpc' = "bootstrap"
       /\ UNCHANGED <<env, calls, sent, replies, access_token, session_id, join_data,
                      tok, url, pathHit>>
       /\ UNCHANGED <<relayVars, clientVars>>

\* start_session, lines 1454-1458, with get_bootstrap_token (1191-1206): the
\* GET of the bootstrap URL and the access token of its reply.
GetBootstrapToken(reply) ==
    LET bootstrap_url == Or(config.bootstrap_url, env.BOOTSTRAP_URL_TEMPLATE)
        agent_id_val  == Or(config.agent_id, env.AGENT_ID)
        token         == Or(reply.access_token, reply.accessToken)
    IN /\ bpc = "bootstrap" /\ server = "app"
       /\ IF Falsy(bootstrap_url) \/ Falsy(agent_id_val) \/ FormatRaises(bootstrap_url)
            THEN /\ bresp' = Unexpected
                 /\ bpc' = "done"
                 /\ UNCHANGED <<calls, sent, replies, access_token>>
            ELSE /\ calls' = Append(calls, "bootstrap")
                 /\ sent' = Append(sent,
                        Request(Format(bootstrap_url, agent_id_val), None))
                 /\ replies' = Append(replies, reply)
                 /\ IF RaisesRequestException(reply)
                      THEN /\ bresp' = RequestFailed
                           /\ bpc' = "done"
                           /\ UNCHANGED access_token
                      ELSE /\ access_token' = token
                           /\ IF Missing(token)
                                THEN /\ bresp' = ErrorResponse(500, "Access token not found in bootstrap response")
                                     /\ bpc' = "done"
                                ELSE /\ bpc' = NextStage.bootstrap
                                     /\ UNCHANGED bresp
       /\ UNCHANGED <<env, server, body, config, session_id, join_data, tok, url, pathHit>>
       /\ UNCHANGED <<relayVars, clientVars>>

\* start_session, lines 1464-1468, with create_session (1208-1238): the POST
\* that creates the session and the session id of its reply.
CreateSession(reply) ==
    LET salesforce_endpoint_val == Or(config.salesforce_endpoint, env.SALESFORCE_ENDPOINT)
        agent_id_val            == Or(config.agent_id, env.AGENT_ID)
    IN /\ bpc = "create" /\ server = "app"
       /\ IF Falsy(salesforce_endpoint_val) \/ Falsy(agent_id_val)
            THEN /\ bresp' = Unexpected
                 /\ bpc' = "done"
                 /\ UNCHANGED <<calls, sent, replies, session_id>>
            ELSE /\ calls' = Append(calls, "create")
                 /\ sent' = Append(sent,
                        Request(CreateUrl(salesforce_endpoint_val, agent_id_val), Authorization(access_token)))
                 /\ replies' = Append(replies, reply)
                 /\ IF RaisesRequestException(reply)
                      THEN /\ bresp' = RequestFailed
                           /\ bpc' = "done"
                           /\ UNCHANGED session_id
                      ELSE /\ session_id' = reply.sessionId
                           /\ IF Missing(reply.sessionId)
                                THEN /\ bresp' = ErrorResponse(500, "Session ID not found in response")
                                     /\ bpc' = "done"
                                ELSE /\ bpc' = NextStage.create
                                     /\ UNCHANGED bresp
       /\ UNCHANGED <<env, server, body, config, access_token, join_data, tok, url, pathHit>>
       /\ UNCHANGED <<relayVars, clientVars>>

\* start_session, line 1476, with join_realtime_session (1240-1258): the POST
\* that joins the realtime session; its JSON body becomes join_data.
JoinRealtimeSession(reply) ==
    LET salesforce_endpoint_val == Or(config.salesforce_endpoint, env.SALESFORCE_ENDPOINT)
    IN /\ bpc = "join" /\ server = "app"
       /\ IF Falsy(salesforce_endpoint_val)
            THEN /\ bresp' = Unexpected
                 /\ bpc' = "done"
                 /\ UNCHANGED <<calls, sent, replies, join_data>>
            ELSE /\ calls' = Append(calls, "join")
                 /\ sent' = Append(sent,
                        Request(JoinUrl(salesforce_endpoint_val, session_id), Authorization(access_token)))
                 /\ replies' = Append(replies, reply)
                 /\ IF RaisesRequestException(reply)
                      THEN /\ bresp' = RequestFailed
                           /\ bpc' = "done"
                           /\ UNCHANGED join_data
                      ELSE /\ join_data' = reply.data
                           /\ bpc' = NextStage.join
                           /\ UNCHANGED bresp
       /\ UNCHANGED <<env, server, body, config, access_token, session_id, tok, url, pathHit>>
       /\ UNCHANGED <<relayVars, clientVars>>

\* extract_livekit_creds, lines 1168-1181: the two loops over the paths
\* (create_agent_session.py, lines 62-76, has the same function).
ExtractPaths ==
    /\ bpc = "paths"
    /\ tok' = PathToken(join_data, 1)
    /\ url' = PathUrl(join_data, 1)
    /\ pathHit' = [tok |-> tok', url |-> url']
    /\ bpc' = "fallback"
    /\ UNCHANGED <<env, server, body, config, calls, sent, replies, access_token, session_id,
                   join_data, bresp>>
    /\ UNCHANGED <<relayVars, clientVars>>

\* extract_livekit_creds, lines 1183-1189: the recursive search for what the
\* paths did not give.
ExtractFallback ==
    /\ bpc = "fallback"
    /\ tok' = IF NeedsFallback(tok) THEN _find_first_jwt(join_data) ELSE tok
    /\ url' = IF NeedsFallback(url) THEN _find_first_wss(join_data) ELSE url
    /\ bpc' = "respond"
    /\ UNCHANGED <<env, server, body, config, calls, sent, replies, access_token, session_id,
                   join_data, pathHit, bresp>>
    /\ UNCHANGED <<relayVars, clientVars>>

\* start_session, lines 1481-1495: the credentials, or the error for their
\* absence.
Respond ==
    /\ bpc = "respond" /\ server = "app"
    /\ bresp' = IF CredsMissing(tok, url)
                  THEN ErrorResponse(500, "Could not find LiveKit credentials in response")
                  ELSE [status |-> 200, error |-> "",
                        bundle |-> [sessionId |-> session_id, livekitUrl |-> url,
                                    token |-> tok]]
    /\ bpc' = "done"
    /\ UNCHANGED <<env, server, body, config, calls, sent, replies, access_token, session_id,
                   join_data, tok, url, pathHit>>
    /\ UNCHANGED <<relayVars, clientVars>>

\* ---------------------------- create_agent_session.py: POST /api/room/join
\* The handler _handle: a RequestException is answered 502 with str(e), any
\* other exception 500 with str(e).
ValueErrorResponse(message) == ErrorResponse(500, message)

\* do_POST, lines 131-137 and 180: the body is parsed and join_room is run;
\* the configuration is that of the environment.
StartJoinRoom ==
    /\ bpc = "idle"
    /\ server' = "cli"
    /\ bpc' = "bootstrap"
    /\ UNCHANGED <<env, body, config, calls, sent, replies, access_token, session_id,
                   join_data, tok, url, pathHit, bresp>>
    /\ UNCHANGED <<relayVars, clientVars>>

\* join_room, lines 140-145, with get_bootstrap_token (78-84).
JoinRoomBootstrap(reply) ==
    LET token == Or(reply.access_token, reply.accessToken)
    IN /\ bpc = "bootstrap" /\ server = "cli"
       /\ IF Falsy(env.BOOTSTRAP_URL_TEMPLATE) \/ Falsy(env.AGENT_ID)
            THEN /\ bresp' = ValueErrorResponse("BOOTSTRAP_URL and AGENT_ID must be set.")
                 /\ bpc' = "done"
                 /\ UNCHANGED <<calls, sent, replies, access_token>>
            ELSE IF FormatRaises(env.BOOTSTRAP_URL_TEMPLATE)
            THEN /\ bresp' = ErrorResponse(500, "KeyError")
                 /\ bpc' = "done"
                 /\ UNCHANGED <<calls, sent, replies, access_token>>
            ELSE /\ calls' = Append(calls, "bootstrap")
                 /\ sent' = Append(sent,
                        Request(Format(env.BOOTSTRAP_URL_TEMPLATE, env.AGENT_ID), None))
                 /\ replies' = Append(replies, reply)
                 /\ IF RaisesRequestException(reply)
                      THEN /\ bresp' = ErrorResponse(502, "RequestException")
                           /\ bpc' = "done"
                           /\ UNCHANGED access_token
                      ELSE /\ access_token' = token
                           /\ IF Missing(token)
                                THEN /\ bresp' = ValueErrorResponse("Access token not found in bootstrap response.")
                                     /\ bpc' = "done"
                                ELSE /\ bpc' = NextStage.bootstrap
                                     /\ UNCHANGED bresp
       /\ UNCHANGED <<env, server, body, config, session_id, join_data, tok, url, pathHit>>
       /\ UNCHANGED <<relayVars, clientVars>>

\* join_room, lines 148-153, with create_session (86-101).
JoinRoomCreate(reply) ==
    /\ bpc = "create" /\ server = "cli"
    /\ IF Falsy(env.SALESFORCE_ENDPOINT)
         THEN /\ bresp' = ValueErrorResponse("SALESFORCE_ENDPOINT must be set.")
              /\ bpc' = "done"
              /\ UNCHANGED <<calls, sent, replies, session_id>>
         ELSE /\ calls' = Append(calls, "create")
              /\ sent' = Append(sent,
                     Request(CreateUrl(env.SALESFORCE_ENDPOINT, env.AGENT_ID), Authorization(access_token)))
              /\ replies' = Append(replies, reply)
              /\ IF RaisesRequestException(reply)
                   THEN /\ bresp' = ErrorResponse(502, "RequestException")
                        /\ bpc' = "done"
                        /\ UNCHANGED session_id
                   ELSE /\ session_id' = reply.sessionId
                        /\ IF Missing(reply.sessionId)
                             THEN /\ bresp' = ValueErrorResponse("Session ID not found.")
                                  /\ bpc' = "done"
                             ELSE /\ bpc' = NextStage.create
                                  /\ UNCHANGED bresp
    /\ UNCHANGED <<env, server, body, config, access_token, join_data, tok, url, pathHit>>
    /\ UNCHANGED <<relayVars, clientVars>>

\* join_room, line 156, with join_realtime_session (103-110).
JoinRoomJoin(reply) ==
    /\ bpc = "join" /\ server = "cli"
    /\ IF Falsy(env.SALESFORCE_ENDPOINT)
         THEN /\ bresp' = ValueErrorResponse("SALESFORCE_ENDPOINT must be set.")
              /\ bpc' = "done"
              /\ UNCHANGED <<calls, sent, replies, join_data>>
         ELSE /\ calls' = Append(calls, "join")
              /\ sent' = Append(sent,
                     Request(JoinUrl(env.SALESFORCE_ENDPOINT, session_id), Authorization(access_token)))
              /\ replies' = Append(replies, reply)
              /\ IF RaisesRequestException(reply)
                   THEN /\ bresp' = ErrorResponse(502, "RequestException")
                        /\ bpc' = "done"
                        /\ UNCHANGED join_data
                   ELSE /\ join_data' = reply.data
                        /\ bpc' = NextStage.join
                        /\ UNCHANGED bresp
    /\ UNCHANGED <<env, server, body, config, access_token, session_id, tok, url, pathHit>>
    /\ UNCHANGED <<relayVars, clientVars>>

\* join_room, lines 160-165: the credentials, or the error for their absence.
JoinRoomRespond ==
    /\ bpc = "respond" /\ server = "cli"
    /\ bresp' = IF CredsMissing(tok, url)
                  THEN ValueErrorResponse("Could not find LiveKit token or endpoint.")
                  ELSE [status |-> 200, error |-> "",
                        bundle |-> [sessionId |-> session_id, livekitUrl |-> url,
                                    token |-> tok]]
    /\ bpc' = "done"
    /\ UNCHANGED <<env, server, body, config, calls, sent, replies, access_token, session_id,
                   join_data, tok, url, pathHit>>
    /\ UNCHANGED <<relayVars, clientVars>>

\* The response has been sent; the next request starts from nothing.
FinishSession ==
    /\ bpc = "done"
    /\ bpc' = "idle"
    /\ server' = "none"
    /\ body' = NoBody
    /\ config' = NoConfig
    /\ calls' = <<>>
    /\ sent' = <<>>
    /\ replies' = <<>>
    /\ access_token' = None
    /\ session_id' = None
    /\ join_data' = JNull
    /\ tok' = JNull
    /\ url' = JNull
    /\ pathHit' = NoPathHit
    /\ bresp' = NoBresp
    /\ UNCHANGED env
    /\ UNCHANGED <<relayVars, clientVars>>

\* SpecBroker: requests to /api/start-session of app.py and to /api/room/join
\* of create_agent_session.py, one after the other, for every environment,
\* request body and upstream reply.
InitBroker == RelayIdle /\ env \in Envs /\ BrokerIdle /\ ClientIdle
NextBroker ==
    \/ \E b \in Bodies : StartSession(b)
    \/ \E reply \in BootstrapReplies : GetBootstrapToken(reply)
    \/ \E reply \in CreateReplies : CreateSession(reply)
    \/ \E reply \in JoinReplies : JoinRealtimeSession(reply)
    \/ StartJoinRoom
    \/ \E reply \in BootstrapReplies : JoinRoomBootstrap(reply)
    \/ \E reply \in CreateReplies : JoinRoomCreate(reply)
    \/ \E reply \in JoinReplies : JoinRoomJoin(reply)
    \/ JoinRoomRespond
    \/ ExtractPaths
    \/ ExtractFallback
    \/ Respond
    \/ FinishSession
SpecBroker == InitBroker /\ [][NextBroker]_vars

\* SpecMixed: the server of app.py with both of its parts: the requests of
\* SpecTwo to the relay while requests to /api/start-session are served, one
\* at a time, with one reply of each kind.
MixedReplies ==
    [bootstrap |-> {Reply("http_error", None, None, None, JNull),
                    Reply("ok", "tokA", None, None, JNull)},
     create    |-> {Reply("ok", None, None, "sid1", JNull)},
     join      |-> {Reply("ok", None, None, None,
                          JObj(<<"room">>, <<JObj(<<"token", "url">>,
                                                  <<JStr(S_abc), JStr(S_wss_x)>>)>>))}]
NextMixed ==
    \/ \E t \in Threads : StepTwo(t)
    \/ Tick
    \/ StartSession(NoBody)
    \/ \E reply \in MixedReplies.bootstrap : GetBootstrapToken(reply)
    \/ \E reply \in MixedReplies.create : CreateSession(reply)
    \/ \E reply \in MixedReplies.join : JoinRealtimeSession(reply)
    \/ ExtractPaths
    \/ ExtractFallback
    \/ Respond
    \/ FinishSession
SpecMixed == Init /\ [][NextMixed]_vars

\* the device client alone; every awaited promise settles
Settles ==
    \/ \E k \in Tasks : \/ Then(k)
                        \/ Ready(k)
                        \/ DisconnectReturns(k)
                        \/ FetchReturns(k)
                        \/ RoomConnects(k)
                        \/ RoomConnectFails(k)
                        \/ MuteReturns(k)
    \/ \E r \in 1..MaxRooms : MicrophoneReturns(r) \/ RoomDisconnected(r)
NextClient ==
    \/ Settles
    \/ \E r \in 1..MaxRooms : RoomDropped(r)
    \/ PollReturns
    \/ ClickConnect
    \/ ClickDisconnect
    \/ ClearField
SpecClient == Init /\ [][NextClient]_vars /\ WF_vars(Settles)

\* ------------------------------------------------------------ properties
Done(t) == pc[t] = "done"
Device(t) == req[t].device_id
Solo(t) == hist[t].peers = {}
\* thread t takes a step of its request and gives its response
Returns(t) == pc[t] # "done" /\ pc'[t] = "done"
\* cs is one contiguous run of the sequence s
IsRun(cs, s) == \E i \in 1..(Len(s) + 1) :
                    /\ i + Len(cs) - 1 <= Len(s)
                    /\ cs = SubSeq(s, i, i + Len(cs) - 1)

\* C1: on a device whose requests came one after the other, the poll
\* responses concatenated in response order are a prefix of the messages
\* enqueued to that device, in enqueue order.
Thm_C1 == \A d \in Devices : ~overlapped[d] => IsPrefix(delivered[d], enqLog[d])

\* C1 witness: commands a then b enqueued to one device, two polls with
\* max=1 have returned a and then b.
Wit_C1 == \E d \in Devices, t \in Threads :
            /\ ~overlapped[d] /\ Len(enqLog[d]) >= 2
            /\ delivered[d] = SubSeq(enqLog[d], 1, 2)
            /\ Done(t) /\ req[t].kind = "poll" /\ Device(t) = d
            /\ req[t].max_items = 1
            /\ resp[t].commands = <<enqLog[d][2]>>

Thm_C4 == [][\A t \in Threads :
               (pc'[t] # pc[t] /\ req[t].kind = "poll" /\ Solo(t)
                  /\ req[t].max_items >= 1 /\ Len(hist[t].q0) >= 1)
               => LET n == Len(hist[t].q0)
                      k == Min(req[t].max_items, n)
                  IN /\ pc'[t] \notin WaitPcs
                     /\ ~hist'[t].waited
                     /\ Returns(t) =>
                          /\ resp'[t].status = 200
                          /\ resp'[t].commands = SubSeq(hist[t].q0, 1, k)
                          /\ Contents(Device(t))' = SubSeq(hist[t].q0, k + 1, n)]_vars

\* C4 witness: a poll with wait=true and max=2 on a queue of three messages
\* has answered two and left the third.
Wit_C4 == \E t \in Threads :
            /\ Done(t) /\ req[t].kind = "poll" /\ Solo(t) /\ req[t].wait
            /\ Len(hist[t].q0) = 3 /\ req[t].max_items = 2
            /\ resp[t].commands = SubSeq(hist[t].q0, 1, 2)
            /\ Contents(Device(t)) = <<hist[t].q0[3]>>

\* C5: a poll with wait=false on an empty queue, run with no other request
\* on its device under way (requests for the other device overlap it), changes the contents of no device queue in any
\* of its steps, never enters the waiting loop and answers no commands.
Thm_C5 == [][\A t \in Threads :
               (pc'[t] # pc[t] /\ pc[t] # "done" /\ req[t].kind = "poll" /\ Solo(t)
                  /\ ~req[t].wait /\ hist[t].q0 = <<>>)
               => /\ \A d \in Devices : Contents(d)' = Contents(d)
                  /\ pc'[t] \notin WaitPcs
                  /\ Returns(t) => (resp'[t].status = 200 /\ resp'[t].commands = <<>>)]_vars

\* C5 witness: such a poll has answered while another device's queue holds
\* a message.
Wit_C5 == \E t \in Threads, d \in Devices :
            /\ Done(t) /\ req[t].kind = "poll" /\ Solo(t) /\ ~req[t].wait
            /\ hist[t].q0 = <<>> /\ resp[t].status = 200 /\ resp[t].commands = <<>>
            /\ d # Device(t) /\ Contents(d) # <<>>

\* C6: a poll with wait=true and timeout T > 0 on a device whose queue is
\* empty when the poll starts and gets no message while it runs answers no
\* commands, and not before T has elapsed since it started waiting.
Thm_C6 == \A t \in Threads :
            (Done(t) /\ req[t].kind = "poll" /\ req[t].wait /\ req[t].timeout_s > 0
               /\ hist[t].stayedEmpty)
            => /\ resp[t].status = 200 /\ resp[t].commands = <<>>
               /\ hist[t].waited
               /\ elapsed[t] >= req[t].timeout_s

\* C6 witness: such a poll has answered empty after its timeout.
Wit_C6 == \E t \in Threads :
            /\ Done(t) /\ req[t].kind = "poll" /\ req[t].wait /\ req[t].timeout_s > 0
            /\ hist[t].stayedEmpty /\ resp[t].commands = <<>>
            /\ elapsed[t] = req[t].timeout_s

\* C7: a poll that was waiting on an empty queue when a command was enqueued
\* to its device before its timeout had elapsed, with no other poll on that
\* device, answers that command first.
Cex_C7 == \A t \in Threads :
            (Done(t) /\ req[t].kind = "poll" /\ req[t].max_items >= 1
               /\ hist[t].arrived # 0 /\ "poll" \notin hist[t].peers)
            => /\ resp[t].status = 200
               /\ resp[t].commands # <<>>
               /\ resp[t].commands[1].type = hist[t].arrived

\* C8: no step of a request for one device changes the contents of another
\* device's queue, and the commands a poll holds or answers were all
\* enqueued to the poll's own device.
Thm_C8 ==
    /\ [][\A t \in Threads : pc'[t] # pc[t] =>
            LET dev == IF pc[t] = "idle" THEN req'[t].device_id ELSE req[t].device_id
            IN \A d \in Devices \ {dev} : Contents(d)' = Contents(d)]_vars
    /\ [](\A t \in Threads : req[t].kind = "poll" =>
            /\ Range(cmds[t]) \subseteq Range(enqLog[Device(t)])
            /\ Range(resp[t].commands) \subseteq Range(enqLog[Device(t)]))

\* C8 witness: a command has just been appended for one device while a poll
\* on another device is asleep in its waiting loop.
Wit_C8 == \E t, u \in Threads :
            /\ pc[t] = "sleeping" /\ pc[u] = "enq_ret"
            /\ Device(u) # Device(t)
            /\ Contents(Device(u)) # <<>> /\ Contents(Device(t)) = <<>>

\* C9: while a poll is in its waiting loop, every other request under way
\* can take its next step (a sleeping one needs only time to pass), a
\* finished one can hand back its thread, and a free thread can start a poll
\* or an enqueue for any device.
Thm_C9 == \A t \in Threads :
            (InFlight(t) /\ hist[t].waited) =>
              /\ \A u \in Threads \ {t} :
                   /\ (InFlight(u) /\ pc[u] # "sleeping") => ENABLED Run(u)
                   /\ (pc[u] = "sleeping") => (sleepLeft[u] = 0 => ENABLED Wake(u))
                   /\ Done(u) => ENABLED Finish(u)
              /\ \A u \in Threads : pc[u] = "idle" =>
                   /\ \A d \in Devices, in \in PollInputs : ENABLED StartPollOn(u, d, in)
                   /\ \A d \in Devices, p \in Payloads :
                        /\ ENABLED StartEnqueueOn(u, d, EmptyCommand, p)
                        /\ ENABLED StartEnqueueOn(u, d, nSent + 1, p)

\* C9 witness: a poll for another device, started while the first poll was
\* in its waiting loop, has answered a command while the first still sleeps.
Wit_C9 == \E t, u \in Threads :
            /\ pc[t] = "sleeping"
            /\ Done(u) /\ req[u].kind = "poll" /\ Device(u) # Device(t)
            /\ hist[u].duringWait
            /\ resp[u].status = 200 /\ resp[u].commands # <<>>

\* C10: the commands answered by a poll are one contiguous run of the
\* messages enqueued to its device (stated for a device whose queue was
\* created once, so that every message enqueued went into that queue).
Cex_C10 == \A t \in Threads :
             (Done(t) /\ req[t].kind = "poll" /\ resp[t].status = 200
                /\ Len(deques) = 1)
             => IsRun(resp[t].commands, enqLog[Device(t)])

\* ------------------------------------------- properties of the broker
BDone == bpc = "done"
CallOrder == <<"bootstrap", "create", "join">>
\* the configuration the request runs with: the locals of start_session, the
\* environment for join_room
Effective ==
    IF server = "cli"
      THEN [bootstrap_url |-> env.BOOTSTRAP_URL_TEMPLATE, agent_id |-> env.AGENT_ID,
            domain_url |-> env.DOMAIN_URL, salesforce_endpoint |-> env.SALESFORCE_ENDPOINT]
      ELSE config
\* it names everything the three calls need and its template can be filled
ValidConfig ==
    /\ ~Falsy(Effective.bootstrap_url) /\ ~Falsy(Effective.agent_id)
    /\ ~Falsy(Effective.salesforce_endpoint)
    /\ ~FormatRaises(Effective.bootstrap_url)
\* the responses for the absence of credentials, of start_session and join_room
NotFound ==
    IF server = "cli"
      THEN ErrorResponse(500, "Could not find LiveKit token or endpoint.")
      ELSE ErrorResponse(500, "Could not find LiveKit credentials in response")
\* the i-th call came back with a 2xx reply that holds what the next call needs
BootstrapSucceeded ==
    /\ Len(replies) >= 1 /\ replies[1].kind = "ok"
    /\ ~Falsy(replies[1].access_token) \/ ~Falsy(replies[1].accessToken)
CreateSucceeded ==
    Len(replies) >= 2 /\ replies[2].kind = "ok" /\ ~Falsy(replies[2].sessionId)
\* extract_livekit_creds has run on the body of the join reply
Extracted == Len(replies) = 3 /\ replies[3].kind = "ok" /\ bpc \in {"respond", "done"}

\* C11: the outbound calls of a request are always the first calls of
\* bootstrap, create, join, in that order; create is issued only after
\* bootstrap succeeded and join only after create succeeded; a request with a
\* valid configuration issues at least the bootstrap call and stops short of
\* the three calls only where a call did not succeed; whatever reaches the
\* extraction or answers 200 has issued exactly the three.
Thm_C11 ==
    /\ IsPrefix(calls, CallOrder)
    /\ Len(calls) >= 2 => BootstrapSucceeded
    /\ Len(calls) >= 3 => CreateSucceeded
    /\ (bpc \in {"paths", "fallback", "respond"} \/ bresp.status = 200)
         => calls = CallOrder
    /\ (BDone /\ ValidConfig)
         => /\ Len(calls) >= 1
            /\ Len(calls) = 1 => ~BootstrapSucceeded
            /\ Len(calls) = 2 => ~CreateSucceeded

\* C11 witness: a request with a valid configuration has answered 200 after
\* the three calls.
Wit_C11 == BDone /\ ValidConfig /\ bresp.status = 200 /\ calls = CallOrder

\* C12: no endpoint is called twice in one request, and a call that came
\* back with a transport error or a non-2xx status is the last call of the
\* request, which is answered 502, without a bundle, in the same step.
Thm_C12 ==
    /\ \A i, j \in 1..Len(calls) : calls[i] = calls[j] => i = j
    /\ \A i \in 1..Len(replies) :
         replies[i].kind # "ok"
         => /\ i = Len(calls)
            /\ BDone
            /\ bresp.status = 502 /\ bresp.bundle = NoBundle
            /\ server = "app" => bresp = ErrorResponse(502, "API request failed")

\* C12 witness: the create call came back with a non-2xx status and the
\* request was answered 502 with two calls issued.
Wit_C12 ==
    /\ BDone /\ bresp.status = 502
    /\ calls = <<"bootstrap", "create">> /\ replies[2].kind = "http_error"

\* the paths of C13, in the order the claim gives them
ClaimedTokenPaths ==
    << <<"room", ".", "token">>, <<"room", ".", "accessToken">>, <<"room", ".", "jwt">>,
       <<"roomToken">>, <<"roomJWT">>, <<"token">>, <<"accessToken">>, <<"jwt">> >>
ClaimedUrlPaths ==
    << <<"endpoint">>, <<"room", ".", "url">>, <<"room", ".", "serverUrl">>,
       <<"room", ".", "wss">>, <<"wss">>, <<"wssUrl">>, <<"wsUrl">>, <<"url">> >>
\* the value at the earliest of the paths whose value is a string that
\* passes the test, None when there is no such path
EarliestOn(obj, paths, Test(_)) ==
    LET hits == {i \in 1..Len(paths) :
                   LET v == _get_by_path(obj, paths[i])
                   IN v.type = "str" /\ Test(v.str)}
    IN IF hits = {} THEN JNull
       ELSE _get_by_path(obj, paths[CHOOSE i \in hits : \A j \in hits : i <= j])
ExactlyTwoPeriods(s) == Cardinality({i \in 1..Len(s) : s[i] = "."}) = 2
BeginsWithWss(s) == Len(s) >= 6 /\ SubSeq(s, 1, 6) = <<"w", "s", "s", ":", "/", "/">>

\* C13: what the path loops leave in tok and url is the value at the earliest
\* claimed path that is a string with exactly two periods, and the value at
\* the earliest claimed path that is a string beginning with wss://.
Thm_C13 ==
    bpc \in {"fallback", "respond", "done"}
    => /\ pathHit.tok = EarliestOn(join_data, ClaimedTokenPaths, ExactlyTwoPeriods)
       /\ pathHit.url = EarliestOn(join_data, ClaimedUrlPaths, BeginsWithWss)

\* C13 witness: room.token is not a string, room.accessToken has three
\* periods, room.jwt is taken although `token` holds another token; endpoint
\* is not a wss URL, `wss` is taken although `url` holds another one.
Wit_C13 ==
    /\ bpc = "fallback"
    /\ _get_by_path(join_data, <<"room", ".", "token">>).type = "num"
    /\ _get_by_path(join_data, <<"room", ".", "accessToken">>) = JStr(S_abcd)
    /\ pathHit.tok = JStr(S_abc) /\ _get_by_path(join_data, <<"token">>) = JStr(S_def)
    /\ _get_by_path(join_data, <<"endpoint">>) = JStr(S_https_x)
    /\ pathHit.url = JStr(S_wss_x) /\ _get_by_path(join_data, <<"url">>) = JStr(S_wss_y)

\* C14: after both passes each field holds its path hit when there is one,
\* and the result of the recursive search only when there is none, the two
\* fields independently.
Thm_C14 ==
    Extracted
    => /\ tok = IF pathHit.tok # JNull THEN pathHit.tok ELSE _find_first_jwt(join_data)
       /\ url = IF pathHit.url # JNull THEN pathHit.url ELSE _find_first_wss(join_data)
       /\ bresp.status = 200 => (bresp.bundle.token = tok /\ bresp.bundle.livekitUrl = url)

\* C14 witness: the token came from its path although the recursive search
\* meets another token first, and the URL, on no path, came from the search.
Wit_C14 ==
    /\ Extracted /\ bresp.status = 200
    /\ pathHit.tok # JNull /\ bresp.bundle.token = pathHit.tok
    /\ _find_first_jwt(join_data) # pathHit.tok
    /\ pathHit.url = JNull /\ bresp.bundle.livekitUrl = _find_first_wss(join_data)

\* every string of a JSON value, depth first, object values and array
\* elements in document order
RECURSIVE StringsOf(_), StringsIn(_, _)
StringsIn(items, i) ==
    IF i > Len(items) THEN <<>> ELSE StringsOf(items[i]) \o StringsIn(items, i + 1)
StringsOf(v) ==
    IF v.type = "str" THEN <<v.str>>
    ELSE IF v.type \in {"obj", "arr"} THEN StringsIn(v.items, 1)
    ELSE <<>>
FirstString(v, Test(_)) ==
    LET ss == StringsOf(v)
        hits == {i \in 1..Len(ss) : Test(ss[i])}
    IN IF hits = {} THEN JNull ELSE JStr(ss[CHOOSE i \in hits : \A j \in hits : i <= j])
\* exactly three non-empty segments of URL-safe base64 characters separated
\* by periods
ThreeBase64UrlSegments(s) ==
    \E i, j \in 1..Len(s) :
        /\ 1 < i /\ i + 1 < j /\ j < Len(s)
        /\ s[i] = "." /\ s[j] = "."
        /\ \A k \in (1..Len(s)) \ {i, j} : s[k] \in JwtChars

\* C15: a field the paths did not give is the first string of the payload,
\* in depth-first document order, that has the field's shape.
Cex_C15 ==
    Extracted
    => /\ pathHit.tok = JNull => tok = FirstString(join_data, ThreeBase64UrlSegments)
       /\ pathHit.url = JNull => url = FirstString(join_data, BeginsWithWss)

\* C16: a request whose join call succeeded is answered with the
\* credentials-not-found error, and without a bundle, exactly when the token
\* or the URL is still None after both passes, and with 200 otherwise; a
\* payload that holds no three-segment string and no wss:// string is
\* answered with that error.
Thm_C16 ==
    (BDone /\ Extracted)
    => LET notFound == NotFound
       IN /\ (bresp = notFound) <=> (JFalsy(tok) \/ JFalsy(url))
          /\ (bresp.status = 200) <=> (~JFalsy(tok) /\ ~JFalsy(url))
          /\ bresp.status # 200 => bresp.bundle = NoBundle
          /\ (/\ FirstString(join_data, ThreeBase64UrlSegments) = JNull
              /\ FirstString(join_data, BeginsWithWss) = JNull) => bresp = notFound

\* C16 witness: the token was found and the URL was not; the request failed
\* with the credentials-not-found error.
Wit_C16 ==
    /\ BDone /\ Extracted /\ tok = JStr(S_abc) /\ url = JNull
    /\ bresp = NotFound

\* C17: the bundle of a 200 response has a URL that begins with wss:// and a
\* token of three base64url segments separated by periods.
Cex_C17 ==
    (BDone /\ bresp.status = 200)
    => /\ BeginsWithWss(bresp.bundle.livekitUrl.str)
       /\ ThreeBase64UrlSegments(bresp.bundle.token.str)

\* C18: a 2xx bootstrap reply with no access token under either key ends the
\* request with the access-token error after the one call; a 2xx create
\* reply with no session id ends it with the session-id error after two.
Thm_C18 ==
    /\ (/\ Len(calls) >= 1 /\ calls[1] = "bootstrap" /\ replies[1].kind = "ok"
        /\ Falsy(replies[1].access_token) /\ Falsy(replies[1].accessToken))
         => /\ BDone
            /\ bresp = IF server = "cli"
                        THEN ErrorResponse(500, "Access token not found in bootstrap response.")
                        ELSE ErrorResponse(500, "Access token not found in bootstrap response")
            /\ calls = <<"bootstrap">>
    /\ (/\ Len(calls) >= 2 /\ calls[2] = "create" /\ replies[2].kind = "ok"
        /\ Falsy(replies[2].sessionId))
         => /\ BDone
            /\ bresp = IF server = "cli"
                        THEN ErrorResponse(500, "Session ID not found.")
                        ELSE ErrorResponse(500, "Session ID not found in response")
            /\ calls = <<"bootstrap", "create">>

\* C18 witness: the create reply had no session id; the request failed after
\* two calls.
Wit_C18 ==
    /\ BDone /\ calls = <<"bootstrap", "create">>
    /\ replies[2].kind = "ok" /\ replies[2].sessionId = None
    /\ server = "app"
    /\ bresp.status = 500 /\ bresp.error = "Session ID not found in response"

\* C19: a request to start_session for which neither the request body nor
\* the environment gives a bootstrap URL template, or neither gives an agent
\* id, is answered 400 "Missing required configuration" and issues no
\* outbound call; join_room, which has the environment only, then fails
\* before its first call.
Thm_C19 ==
    /\ (/\ server = "app"
        /\ \/ Falsy(body.bootstrapUrl) /\ Falsy(env.BOOTSTRAP_URL_TEMPLATE)
           \/ Falsy(body.agentId) /\ Falsy(env.AGENT_ID))
         => /\ BDone
            /\ bresp = ErrorResponse(400, "Missing required configuration")
            /\ calls = <<>>
    /\ (/\ server = "cli" /\ bpc # "bootstrap"
        /\ Falsy(env.BOOTSTRAP_URL_TEMPLATE) \/ Falsy(env.AGENT_ID))
         => /\ BDone
            /\ bresp = ErrorResponse(500, "BOOTSTRAP_URL and AGENT_ID must be set.")
            /\ calls = <<>>

\* C19 witness: the body has no agent id and AGENT_ID is empty, while the
\* other fields are given; the request was answered 400 with no call.
Wit_C19 ==
    /\ BDone /\ server = "app" /\ body.agentId = None /\ env.AGENT_ID = ""
    /\ ~Falsy(config.bootstrap_url) /\ ~Falsy(config.salesforce_endpoint)
    /\ bresp.status = 400 /\ calls = <<>>

\* the number of times m occurs in the sequence s
Occurrences(s, m) == Cardinality({i \in 1..Len(s) : s[i] = m})
\* the commands that polls under way on device d have popped into cmds
RECURSIVE PoppedBy(_, _)
PoppedBy(ts, d) ==
    IF ts = {} THEN <<>>
    ELSE LET t == CHOOSE x \in ts : TRUE
         IN (IF InFlight(t) /\ req[t].kind = "poll" /\ req[t].device_id = d
               THEN cmds[t] ELSE <<>>) \o PoppedBy(ts \ {t}, d)

\* C20: every command appended for a device is, at every moment, exactly
\* once in the device's queue, in the hands of a poll under way, or in a poll
\* response already given.
Cex_C20 ==
    \A d \in Devices : \A i \in 1..Len(enqLog[d]) :
        Occurrences(Contents(d) \o PoppedBy(Threads, d) \o delivered[d], enqLog[d][i]) = 1

\* ------------------------------------------ properties of the relay, again
\* C21: a device id that has a queue in the registry keeps that very queue:
\* no step removes the entry or stores a different deque under it.
Cex_C21 == [][\A d \in Devices :
                ~QueueAbsent(COMMAND_QUEUES, d)
                => COMMAND_QUEUES'[d] = COMMAND_QUEUES[d]]_vars

\* C29: every poll ends with status 200 and a commands list.
Cex_C29 == \A t \in Threads : (Done(t) /\ req[t].kind = "poll") => resp[t].status = 200

\* C22: once its timeout has elapsed a waiting poll answers at its next test
\* of the loop condition, so it makes at most the one queue check it had
\* already begun; the time it measures never runs backwards; a poll leaves
\* its waiting loop only when the timeout has elapsed or after it saw a
\* command in its queue; and every poll, waiting or not, ends.
Thm_C22 ==
    /\ [][\A t \in Threads :
            /\ (pc[t] = "loop_test" /\ elapsed[t] >= req[t].timeout_s /\ pc'[t] # pc[t])
                 => (Returns(t) /\ resp'[t].status = 200)
            /\ (pc[t] \in WaitPcs /\ pc'[t] \in WaitPcs) => elapsed'[t] >= elapsed[t]
            /\ (pc[t] \in WaitPcs /\ Returns(t))
                 => \/ pc[t] = "loop_test" /\ elapsed[t] >= req[t].timeout_s
                    \/ pc[t] \in {"ldrain_test", "ldrain_pop"}]_vars
    /\ \A t \in Threads : (InFlight(t) /\ req[t].kind = "poll") ~> Done(t)

\* C22 witness: a poll with wait=true has answered at its timeout although a
\* command was enqueued and another poll ran on its device meanwhile.
Wit_C22 == \E t \in Threads :
             /\ Done(t) /\ req[t].kind = "poll" /\ hist[t].waited
             /\ elapsed[t] >= req[t].timeout_s /\ resp[t].status = 200
             /\ hist[t].peers = {"enqueue", "poll"}

\* ------------------------------------- properties of the broker, again
\* the access token as the handlers read it from the bootstrap reply
TokenOf(reply) == IF Falsy(reply.access_token) THEN reply.accessToken ELSE reply.access_token

\* C26: the create call and the join call carry, as bearer token, the access
\* token read from the bootstrap reply; the join call is sent to the path of
\* the session id that the create reply gave; and the bundle of a 200
\* response names that same session id.
Thm_C26 ==
    /\ Len(sent) = Len(calls)
    /\ Len(sent) >= 2 => sent[2].Authorization = <<"Bearer", TokenOf(replies[1])>>
    /\ Len(sent) >= 3 =>
         /\ sent[3].Authorization = <<"Bearer", TokenOf(replies[1])>>
         /\ sent[3].url[3] = replies[2].sessionId
         /\ sent[3].url[4] = "/join"
    /\ bresp.status = 200 =>
         /\ Len(sent) = 3
         /\ bresp.bundle.sessionId = replies[2].sessionId
         /\ bresp.bundle.sessionId = sent[3].url[3]

\* C26 witness: the bootstrap reply had the token under accessToken only,
\* create gave the second session id, and the request was answered 200.
Wit_C26 ==
    /\ BDone /\ bresp.status = 200
    /\ replies[1].access_token = None /\ replies[1].accessToken = "tokB"
    /\ sent[2].Authorization = <<"Bearer", "tokB">>
    /\ replies[2].sessionId = "sid2" /\ bresp.bundle.sessionId = "sid2"

IsSuffix(s, u) == Len(s) <= Len(u) /\ SubSeq(u, Len(u) - Len(s) + 1, Len(u)) = s

\* C30: the step in which a waiting poll answers at its timeout changes no
\* queue and answers no command; when a command arrived for the device while
\* the poll waited and no other poll ran (stated for a device whose queue was
\* created once), the command is in the queue after that step and the queue
\* is the messages enqueued, in order, less those taken from its head; and a
\* poll with max >= 1 that runs alone then answers the head of the queue
\* first.
Thm_C30 ==
    /\ [][\A t \in Threads :
            (req[t].kind = "poll" /\ pc[t] = "loop_test" /\ Returns(t))
            => /\ deques' = deques /\ COMMAND_QUEUES' = COMMAND_QUEUES
               /\ resp'[t].status = 200 /\ resp'[t].commands = <<>>
               /\ (hist[t].arrived # 0 /\ "poll" \notin hist[t].peers /\ Len(deques) = 1)
                    => /\ \E i \in 1..Len(Contents(Device(t))') :
                            Contents(Device(t))'[i].type = hist[t].arrived
                       /\ IsSuffix(Contents(Device(t))', enqLog'[Device(t)])]_vars
    /\ [](\A u \in Threads :
            (Done(u) /\ req[u].kind = "poll" /\ Solo(u) /\ req[u].max_items >= 1
               /\ hist[u].q0 # <<>>)
            => (resp[u].status = 200 /\ resp[u].commands # <<>>
                /\ resp[u].commands[1] = Head(hist[u].q0)))

\* C30 witness: a poll answered nothing at its timeout although a command
\* had arrived while it waited; the next poll of the device has answered
\* that command.
Wit_C30 == \E t, u \in Threads :
             /\ Done(t) /\ req[t].kind = "poll" /\ hist[t].waited
             /\ hist[t].arrived # 0 /\ resp[t].status = 200 /\ resp[t].commands = <<>>
             /\ Done(u) /\ req[u].kind = "poll" /\ Solo(u) /\ Device(u) = Device(t)
             /\ resp[u].commands # <<>> /\ resp[u].commands[1].type = hist[t].arrived

\* ------------------------------------- properties of the device client
Outstanding == polls.issued - polls.answered

\* C24: the poll loop issues the next poll only after the response of the
\* previous one was received and its commands were all applied (or abandoned
\* by the catch), so at most one poll is outstanding; and it always issues the
\* next one, also after a failed poll and after a handler that throws.
Thm_C24 ==
    /\ [](/\ Outstanding \in {0, 1}
          /\ Outstanding = 1 <=> task[LoopTask].wait = "poll"
          /\ Outstanding = 1 => batch = <<>> /\ task[LoopTask].st = <<"for">>)
    /\ []<>(Outstanding = 1)
Wit_C24 ==
    /\ polls.failed >= 1
    /\ polls.thrown >= 1
    /\ polls.answered = MaxPolls
    /\ Outstanding = 1

\* C25 as stated: after the client has applied end, room is null and the muted
\* flag is reset; on new and restart_flow the room connected when the command
\* began is disconnected before the credential acquisition is started; and on
\* creds and join a credential acquisition is started.
EndLeavesNoRoom ==
    last.cmd = "end" => last.room = 0 /\ ~last.isMuted
DisconnectsBeforeAcquiring ==
    LET t == task[LoopTask] IN
    (t.cmd \in {"new", "restart_flow"} /\ t.fetched)
        => t.atFetch.room = 0 /\ t.atFetch.prev \in {"none", "disconnected", "failed"}
Acquiring == {k \in Tasks : task[k].wait = "fetch"}
Held      == {r \in 1..Len(lk) : Alive(lk[r].state)}
EffectsInOrder ==
    \A i \in 1..MaxSettings :
        task[BgTask(i)].wait # "idle"
            => task[LoopTask].cmd = "set_settings" /\ task[LoopTask].wait # "poll"
NothingAfterEnd ==
    (last.cmd = "end" /\ task[LoopTask].wait = "poll" /\ used.clicks = 0)
        => room = 0 /\ Held = {} /\ Acquiring = {}
Cex_C27 == EffectsInOrder /\ NothingAfterEnd

\* C28: whatever the interleaving of remote commands and clicks, the client
\* has at most one credential acquisition in flight and holds at most one
\* room.
Cex_C28 ==
    /\ Cardinality(Acquiring) <= 1
    /\ Cardinality(Held) <= 1

\* ------------------------------------------ properties of the relay, once more
\* thread t serves a poll whose max is zero or negative
NonPositivePoll(t) == InFlight(t) /\ req[t].kind = "poll" /\ req[t].max_items <= 0

\* C31: a poll with max <= 0 answers 200 with an empty commands list and no
\* step of it changes a queue.  With wait=true it never sleeps after a check
\* that found its queue non-empty but answers with its next step, so a poll
\* that started on a non-empty queue and that no other request on its device
\* overlapped never sleeps; when the check finds the queue empty it sleeps, and it leaves the
\* waiting loop only at the timeout or after it saw the queue non-empty, as
\* every long-poll does.
Thm_C31 ==
    /\ [](\A t \in Threads :
            /\ NonPositivePoll(t) => cmds[t] = <<>>
            /\ (NonPositivePoll(t) /\ pc[t] = "sleeping" /\ Solo(t))
                  => hist[t].q0 = <<>>
            /\ (Done(t) /\ req[t].kind = "poll" /\ req[t].max_items <= 0)
                  => resp[t].status = 200 /\ resp[t].commands = <<>>)
    /\ [][\A t \in Threads : (NonPositivePoll(t) /\ pc'[t] # pc[t]) =>
            /\ \A i \in 1..Len(deques) : deques'[i] = deques[i]
            /\ pc[t] = "drain_test" =>
                  IF req[t].wait THEN pc'[t] = "loop_test" ELSE Returns(t)
            /\ pc[t] = "loop_check" =>
                  pc'[t] = IF deques[q[t]] # <<>> THEN "ldrain_test" ELSE "sleeping"
            /\ pc[t] = "ldrain_test" => Returns(t)
            /\ (pc[t] \in WaitPcs /\ Returns(t))
                  => \/ pc[t] = "loop_test" /\ elapsed[t] >= req[t].timeout_s
                     \/ pc[t] = "ldrain_test"]_vars

\* C31 witness: a poll with max <= 0 and wait=true that started on a queue
\* holding a command has answered before its timeout with no commands, and
\* the queue still holds what it held.
Wit_C31 == \E t \in Threads :
             /\ Done(t) /\ req[t].kind = "poll" /\ req[t].max_items <= 0 /\ req[t].wait
             /\ hist[t].q0 # <<>> /\ Solo(t)
             /\ elapsed[t] < req[t].timeout_s
             /\ resp[t].status = 200 /\ resp[t].commands = <<>>
             /\ Contents(Device(t)) = hist[t].q0

\* r is s without its leading and trailing whitespace
StripsTo(s, r) ==
    /\ r = <<>> \/ (r[1] \notin Whitespace /\ r[Len(r)] \notin Whitespace)
    /\ \E i \in 1..(Len(s) + 1) :
          /\ i + Len(r) - 1 <= Len(s)
          /\ SubSeq(s, i, i + Len(r) - 1) = r
          /\ \A n \in 1..Len(s) : (n < i \/ n >= i + Len(r)) => s[n] \in Whitespace
\* the commands poll t has taken so far or has answered with
Taken(t) == Range(cmds[t]) \cup Range(resp[t].commands)

\* C32: enqueue and poll resolve every body deviceId to the same device: an
\* absent, null or empty one to 'default-phone', a string to itself without
\* its surrounding whitespace.  Each request works on the device its deviceId
\* resolves to: a command enters the log of a device only by an enqueue whose
\* deviceId resolves to it; a poll takes only commands enqueued for the
\* device its deviceId resolves to; and a poll that no request overlapped
\* answers with the head of the queue that the enqueues with a deviceId
\* resolving as its own have filled.
Thm_C32 ==
    /\ [](/\ \A raw \in RawDeviceIds :
               /\ EnqueueDevice(raw) = PollDevice(raw)
               /\ JFalsy(raw) => PollDevice(raw) = "default-phone"
               /\ ~JFalsy(raw) => StripsTo(raw.str, Chars[PollDevice(raw)])
          /\ \A t \in Threads :
               /\ req[t].kind = "enqueue" => req[t].device_id = EnqueueDevice(req[t].deviceId)
               /\ req[t].kind = "poll" =>
                     /\ req[t].device_id = PollDevice(req[t].deviceId)
                     /\ Taken(t) \subseteq Range(enqLog[PollDevice(req[t].deviceId)])
               /\ (Done(t) /\ req[t].kind = "poll" /\ Solo(t) /\ resp[t].status = 200
                      /\ hist[t].q0 # <<>>)
                     => /\ resp[t].commands =
                             SubSeq(hist[t].q0, 1, Min(req[t].max_items, Len(hist[t].q0)))
                        /\ Range(hist[t].q0)
                             \subseteq Range(enqLog[EnqueueDevice(req[t].deviceId)]))
    /\ [][\A d \in Devices : enqLog'[d] # enqLog[d] =>
             \E t \in Threads :
                /\ req[t].kind = "enqueue"
                /\ EnqueueDevice(req[t].deviceId) = d
                /\ enqLog'[d] = Append(enqLog[d], Message(req[t].command, req[t].payload))]_vars

\* C32 witness: a command was enqueued with deviceId ' A\n' and a poll sent
\* with that same deviceId has answered with it.
Wit_C32 ==
    /\ Done("t1") /\ req["t1"].kind = "poll"
    /\ Done("t2") /\ req["t2"].kind = "enqueue" /\ resp["t2"].status = 200
    /\ req["t1"].deviceId = JStr(<<" ", "A", LF>>)
    /\ req["t2"].deviceId = req["t1"].deviceId
    /\ resp["t1"].commands = <<Message(req["t2"].command, req["t2"].payload)>>

TypeOK ==
    /\ \A d \in Devices : COMMAND_QUEUES[d] \in 0..Len(deques)
    /\ \A t \in Threads : elapsed[t] \in 0..MaxTime /\ sleepLeft[t] \in 0..SleepTicks
    /\ \A t \in Threads : InFlight(t) /\ pc[t] \notin {"qf_check", "qf_set", "qf_get"}
                            => q[t] \in 1..Len(deques)
    /\ bpc \in {"idle", "bootstrap", "create", "join", "paths", "fallback", "respond", "done"}
    /\ env \in Envs /\ body \in Bodies /\ server \in {"none", "app", "cli"}
    /\ Len(calls) = Len(replies) /\ Len(calls) <= 3
    /\ bresp.status \in {0, 200, 400, 500, 502}
    /\ Len(sent) = Len(calls)
    /\ room \in 0..Len(lk) /\ Len(lk) <= MaxRooms
    /\ isConnecting \in BOOLEAN /\ isMuted \in BOOLEAN /\ localMicTrack \in BOOLEAN
    /\ \A k \in Tasks : task[k].wait \in {"idle", "ready", "then", "poll", "disconnect",
                                           "fetch", "connect", "mute"}
    /\ used.clicks <= MaxClicks /\ used.settings <= MaxSettings
=============================================================================
